---- MODULE Spec2Model ----
(***************************************************************************)
(* The PLONK prover of plonky2/src/plonk/prover.rs: the round-by-round     *)
(* orchestration of prove and my_prove, the permutation-argument builder   *)
(* wires_permutation_partial_products_and_zs, and the quotient stage.      *)
(* Field arithmetic is done in a small prime field with the same two-adic  *)
(* structure the code relies on (subgroups of 2-power order, a coset       *)
(* shift, coset representatives k_i).                                      *)
(***************************************************************************)
EXTENDS Integers, Sequences, FiniteSets, TLC

(***************************************************************************)
(* Bounds of the model.                                                    *)
(***************************************************************************)
MaxRoutedWires == 4
MaxQuotientDegreeFactor == 3
MaxChallenges == 3
MaxRateBits == 2
MaxDigest == 1
MaxWireVal == 1
MaxScratch == 1
MaxBatch == 3

(***************************************************************************)
(* The field F: the integers modulo the prime FieldOrder = 97 = 2^5*3 + 1. *)
(* MultGenerator generates F^*, PowerOfTwoGenerator has order 2^TwoAdicity.*)
(***************************************************************************)
FieldOrder == 97
MultGenerator == 5
TwoAdicity == 5
PowerOfTwoGenerator == 28

F == 0 .. (FieldOrder - 1)
ZERO == 0
ONE == 1

Add(a, b) == (a + b) % FieldOrder
Sub(a, b) == (a + FieldOrder - b) % FieldOrder
Mul(a, b) == (a * b) % FieldOrder

RECURSIVE Pow(_, _)
Pow(a, e) ==
    IF e = 0 THEN ONE
    ELSE IF e % 2 = 0 THEN Pow(Mul(a, a), e \div 2)
    ELSE Mul(a, Pow(Mul(a, a), e \div 2))

\* Field::inverse: defined for non-zero elements only (the code panics on zero).
InverseTable == [a \in 1 .. (FieldOrder - 1) |-> Pow(a, FieldOrder - 2)]
Inverse(a) == InverseTable[a]

RECURSIVE exp_power_of_2(_, _)
exp_power_of_2(a, bits) ==
    IF bits = 0 THEN a ELSE exp_power_of_2(Mul(a, a), bits - 1)

RECURSIVE TwoPow(_)
TwoPow(k) == IF k = 0 THEN 1 ELSE 2 * TwoPow(k - 1)

RECURSIVE log2_ceil(_)
log2_ceil(n) == IF n <= 1 THEN 0 ELSE 1 + log2_ceil((n + 1) \div 2)

ceil_div_usize(a, b) == (a + b - 1) \div b

\* Field::primitive_root_of_unity(n_log): a generator of the subgroup of order 2^n_log.
primitive_root_of_unity(n_log) ==
    exp_power_of_2(PowerOfTwoGenerator, TwoAdicity - n_log)

\* The powers of PowerOfTwoGenerator, and through them the powers (also the
\* negative ones) of primitive_root_of_unity(n_log).
RootPowers == [i \in 1 .. TwoPow(TwoAdicity) |-> Pow(PowerOfTwoGenerator, i - 1)]
RootPow(n_log, e) ==
    RootPowers[((e % TwoPow(n_log)) * TwoPow(TwoAdicity - n_log)) + 1]
RootPowInv(n_log, e) == RootPow(n_log, TwoPow(n_log) - (e % TwoPow(n_log)))

\* Field::two_adic_subgroup(n_log): <<1, w, w^2, ...>> of length 2^n_log.
two_adic_subgroup(n_log) == [i \in 1 .. TwoPow(n_log) |-> RootPow(n_log, i - 1)]

(***************************************************************************)
(* Sequence helpers.                                                       *)
(***************************************************************************)
\* The folds below split the range of indices in halves.
RECURSIVE ProductRange(_, _, _)
ProductRange(s, lo, hi) ==
    IF lo > hi THEN ONE
    ELSE IF lo = hi THEN s[lo]
    ELSE Mul(ProductRange(s, lo, (lo + hi) \div 2),
             ProductRange(s, (lo + hi) \div 2 + 1, hi))

Product(s) == ProductRange(s \o <<>>, 1, Len(s))

RECURSIVE ConcatRange(_, _, _)
ConcatRange(ss, lo, hi) ==
    IF lo > hi THEN <<>>
    ELSE IF lo = hi THEN ss[lo] \o <<>>
    ELSE ConcatRange(ss, lo, (lo + hi) \div 2) \o
         ConcatRange(ss, (lo + hi) \div 2 + 1, hi)

Concat(ss) == ConcatRange(ss \o <<>>, 1, Len(ss))

\* util::transpose: a list of rows to the list of their columns.
transpose(rows) ==
    IF rows = <<>> THEN <<>>
    ELSE [c \in 1 .. Len(rows[1]) |-> [r \in 1 .. Len(rows) |-> rows[r][c]]]

RECURSIVE SumRange(_, _, _)
SumRange(s, lo, hi) ==
    IF lo > hi THEN ZERO
    ELSE IF lo = hi THEN s[lo]
    ELSE Add(SumRange(s, lo, (lo + hi) \div 2),
             SumRange(s, (lo + hi) \div 2 + 1, hi))

Sum(s) == SumRange(s \o <<>>, 1, Len(s))

Last(s) == s[Len(s)]
Front(s) == SubSeq(s, 1, Len(s) - 1)
Min(a, b) == IF a <= b THEN a ELSE b

(***************************************************************************)
(* Polynomials.  PolynomialValues are evaluations over a two-adic subgroup,*)
(* PolynomialCoeffs are coefficients, lowest degree first.                 *)
(***************************************************************************)
Log2Len(n) == log2_ceil(n)

\* PolynomialValues::ifft: interpolation over the subgroup of order Len(values).
ifft(values) ==
    LET n == Len(values)
        n_log == Log2Len(n)
        n_inv == Inverse(n % FieldOrder)
    IN  [k \in 1 .. n |->
            Mul(n_inv, Sum([i \in 1 .. n |->
                Mul(values[i], RootPowInv(n_log, (i - 1) * (k - 1)))]))]

\* PolynomialValues::coset_ifft(shift): interpolation over shift * subgroup.
coset_ifft(values, shift) ==
    LET c == ifft(values)
        s_inv == Inverse(shift)
    IN  [k \in 1 .. Len(c) |-> Mul(c[k], Pow(s_inv, k - 1))]

\* PolynomialCoeffs::eval: the sum of coeffs[k] * x^(k-1).
eval(coeffs, x) ==
    Sum([k \in 1 .. Len(coeffs) |-> Mul(coeffs[k], Pow(x, k - 1))])

\* PolynomialCoeffs::trim_to_len(len): succeeds iff every coefficient at an
\* index >= len is zero, and then keeps the first len coefficients.
trim_ok(coeffs, len) ==
    /\ Len(coeffs) >= len
    /\ \A k \in (len + 1) .. Len(coeffs) : coeffs[k] = ZERO

trim_to_len(coeffs, len) == SubSeq(coeffs, 1, len)

\* PolynomialCoeffs::chunks(chunk_size): consecutive slices of chunk_size coefficients.
chunks(coeffs, chunk_size) ==
    [c \in 1 .. ceil_div_usize(Len(coeffs), chunk_size) |->
        SubSeq(coeffs, (c - 1) * chunk_size + 1, Min(c * chunk_size, Len(coeffs)))]

(***************************************************************************)
(* State.  The first group is the input of a run (the circuit's           *)
(* configuration and which entry point runs); the rest are the locals of   *)
(* prove / my_prove, pc being the position in the function body.           *)
(***************************************************************************)
VARIABLES
    path,                    \* "prove" or "my_prove"
    num_routed_wires,        \* common_data.config.num_routed_wires
    quotient_degree_factor,  \* common_data.quotient_degree_factor
    num_challenges,          \* common_data.config.num_challenges
    rate_bits,               \* common_data.config.fri_config.rate_bits
    circuit_digest,          \* prover_data.circuit_digest
    constants_sigmas_commitment, \* prover_data.constants_sigmas_commitment
    pc,                      \* position in the body of prove / my_prove
    result,                  \* "running", "ok", or the fatal error that ended the run
    log,                     \* the operations executed so far, in order
    witness,                 \* witness.wire_values: one column per wire
    public_inputs,
    public_inputs_hash,
    wires_commitment,
    challenger,              \* the sponge state of the Challenger
    betas,
    gammas,
    partial_products_and_zs, \* per challenge instance, the builder's polynomials
    zs_partial_products,     \* the batch handed to the permutation commitment
    partial_products_and_zs_commitment,
    alphas,
    quotient_polys,
    all_quotient_poly_chunks,
    quotient_polys_commitment,
    zeta,
    openings,
    opening_proof,
    proof,
    previous,                \* what the earlier run of this process ended with, if any
    row_slots,               \* the output slots of the parallel map over the rows
    batch_slots              \* the output slots of the parallel map over the batches

config == <<path, num_routed_wires, quotient_degree_factor, num_challenges,
            rate_bits, circuit_digest, constants_sigmas_commitment>>

vars == <<path, num_routed_wires, quotient_degree_factor, num_challenges,
          rate_bits, circuit_digest, constants_sigmas_commitment, pc, result, log, witness, public_inputs,
          public_inputs_hash, wires_commitment, challenger, betas, gammas,
          partial_products_and_zs, zs_partial_products,
          partial_products_and_zs_commitment, alphas, quotient_polys,
          all_quotient_poly_chunks, quotient_polys_commitment, zeta, openings,
          opening_proof, proof, previous, row_slots, batch_slots>>

\* The outputs of the parallel maps; only the steps of the workers change them.
slots == <<row_slots, batch_slots>>

(***************************************************************************)
(* The circuit (CommonCircuitData / ProverOnlyCircuitData).                *)
(***************************************************************************)
\* common_data.degree_bits(): the circuit has 2^degree_bits rows.
degree_bits == 2
degree == TwoPow(degree_bits)
\* common_data.quotient_degree() = quotient_degree_factor * degree
quotient_degree == quotient_degree_factor * degree
\* common_data.config.num_wires: every wire of the model is routed.
num_wires == num_routed_wires
\* common_data.num_partial_products
num_partial_products == ceil_div_usize(num_routed_wires, quotient_degree_factor) - 1

\* prover_data.subgroup: the evaluation domain H, subgroup[i] = g^(i-1).
subgroup == two_adic_subgroup(degree_bits)
\* common_data.k_is: representatives of distinct cosets of H, one per routed wire.
k_is(j) == Pow(MultGenerator, j - 1)

\* The wiring of the circuit: wire 1 of every row is connected to wire 1 of
\* the next row (cyclically); every other wire is connected to itself.
sigma_row(i, j) == IF j = 1 THEN (i % degree) + 1 ELSE i
sigma_col(i, j) == j
\* prover_data.sigmas[i][j]: the field encoding k * x of the position wired to (i, j).
sigmas(i, j) == Mul(k_is(sigma_col(i, j)), subgroup[sigma_row(i, j)])

(***************************************************************************)
(* The witness (MatrixWitness).  The witness generator is a collaborator;  *)
(* the model draws its result from a family of matrices: wire 1 carries    *)
(* the value v in every row (which satisfies the wiring), except in row    *)
(* bad (if bad > 0), where it carries v + 1 and violates a copy constraint.*)
(***************************************************************************)
WireVals == 1 .. MaxWireVal

full_witness(v, bad) ==
    [j \in 1 .. num_wires |->
        [i \in 1 .. degree |->
            IF j = 1 THEN (IF i = bad THEN Add(v, 1) ELSE v)
            ELSE Add(v, Mul(i, j))]]

get_wire(w, i, j) == w[j][i]

\* partition_witness.get_targets(&prover_data.public_inputs): wire 1 of row 1.
get_targets(w) == <<get_wire(w, 1, 1)>>

(***************************************************************************)
(* Hashing, the Challenger and the commitment oracle.                      *)
(***************************************************************************)
\* The sponge: absorbing one field element, and the permutation between outputs.
Absorb(state, x) == Add(Mul(state, 31), Add(x, 7))
Permutation(state) == Add(Mul(Mul(state, state), state), Add(Mul(state, 2), 13))

\* Absorbing xs[1], xs[2], ... in this order.  Absorb is affine in the state,
\* so the state after the last element is a sum over the elements.
AbsorbAll(state, xs) ==
    Add(Mul(state, Pow(31, Len(xs))),
        Sum([k \in 1 .. Len(xs) |-> Mul(Add(xs[k], 7), Pow(31, Len(xs) - k))]))

\* Hasher::hash_public_inputs / the Merkle cap of a batch: a digest of the data.
hash_no_pad(xs) == AbsorbAll(ZERO, xs)

\* Challenger::new, observe_hash, observe_cap, observe_openings, get_challenge.
NewChallenger == ZERO
observe_hash(ch, h) == Absorb(ch, h)
observe_cap(ch, cap) == Absorb(ch, cap)
observe_openings(ch, os) == AbsorbAll(ch, os)
get_challenge(ch) == [out |-> Permutation(ch), state |-> Add(Permutation(ch), 1)]

RECURSIVE get_n_challenges(_, _)
get_n_challenges(ch, n) ==
    IF n = 0 THEN [out |-> <<>>, state |-> ch]
    ELSE LET c == get_challenge(ch)
             r == get_n_challenges(c.state, n - 1)
         IN  [out |-> <<c.out>> \o r.out, state |-> r.state]

get_extension_challenge(ch) == get_challenge(ch)

\* PolynomialBatch: the committed polynomials in coefficient form and the cap.
NoCommitment == [polynomials |-> <<>>, cap |-> -1]
from_coeffs(polys) ==
    [polynomials |-> polys, cap |-> hash_no_pad(Concat(polys))]
from_values(values) ==
    from_coeffs([k \in 1 .. Len(values) |-> ifft(values[k])])

\* PolynomialBatch::from_values_with_gpu(values, poly_num, values_num_per_poly):
\* the polynomials are given as one flat vector of their values.
from_values_with_gpu(values, poly_num, values_num_per_poly) ==
    from_values([k \in 1 .. poly_num |->
        SubSeq(values, (k - 1) * values_num_per_poly + 1, k * values_num_per_poly)])

\* The construction of prover_data.constants_sigmas_commitment: the commitment to
\* the sigma polynomials (the circuit of the model has no constants).
commit_constants_sigmas(n_routed) ==
    from_values([j \in 1 .. n_routed |-> [i \in 1 .. degree |-> sigmas(i, j)]])

(***************************************************************************)
(* The permutation-argument builder,                                       *)
(* wires_permutation_partial_products_and_zs.                              *)
(***************************************************************************)
\* Row i: wire_value + beta * k_i * x + gamma for every routed wire.
numerators_without_k_is(w, i, beta, gamma) ==
    [j \in 1 .. num_routed_wires |->
        Add(Add(get_wire(w, i, j), Mul(beta, subgroup[i])), gamma)]
numerators(w, i, beta, gamma) ==
    [j \in 1 .. num_routed_wires |->
        Add(Add(get_wire(w, i, j), Mul(beta, Mul(k_is(j), subgroup[i]))), gamma)]

\* Row i: wire_value + beta * s_sigma + gamma for every routed wire.
denominators(w, i, beta, gamma) ==
    [j \in 1 .. num_routed_wires |->
        Add(Add(get_wire(w, i, j), Mul(beta, sigmas(i, j))), gamma)]

\* Field::batch_multiplicative_inverse: the inverses, element by element; the
\* call panics when an element is zero.
batch_inverse_panics(xs) == \E j \in 1 .. Len(xs) : xs[j] = ZERO
batch_multiplicative_inverse(xs) == [j \in 1 .. Len(xs) |-> Inverse(xs[j])]

\* partial_products::quotient_chunk_products: the product of every chunk of
\* max_degree consecutive quotient values (the last chunk may be shorter).
quotient_chunk_products(quotient_values, max_degree) ==
    [c \in 1 .. ceil_div_usize(Len(quotient_values), max_degree) |->
        Product(SubSeq(quotient_values, (c - 1) * max_degree + 1,
                       Min(c * max_degree, Len(quotient_values))))]

\* partial_products::partial_products_and_z_gx: the running products
\* z_x * c_1, z_x * c_1 * c_2, ...; the last one is Z(gx).
partial_products_and_z_gx(z_x, chunk_products) ==
    [k \in 1 .. Len(chunk_products) |->
        Mul(z_x, Product(SubSeq(chunk_products, 1, k)))]

\* The body of the parallel map over the rows: the chunk products of row i.
row_chunk_products(w, i, beta, gamma) ==
    LET nums == numerators(w, i, beta, gamma)
        denominator_invs ==
            batch_multiplicative_inverse(denominators(w, i, beta, gamma))
        quotient_values ==
            [j \in 1 .. num_routed_wires |-> Mul(nums[j], denominator_invs[j])]
    IN  quotient_chunk_products(quotient_values, quotient_degree_factor)

all_quotient_chunk_products(w, beta, gamma) ==
    [i \in 1 .. degree |-> row_chunk_products(w, i, beta, gamma)]

\* One iteration of the sequential loop: the row that is pushed and the z_x
\* carried to the next row, after swap(&mut z_x, &mut row[num_prods]).
swap_z_not_swapped(z_x, row) ==
    [z_x |-> row[num_partial_products + 1], row |-> row]
swap_z(z_x, row) ==
    [z_x |-> row[num_partial_products + 1],
     row |-> [row EXCEPT ![num_partial_products + 1] = z_x]]

RECURSIVE z_loop(_, _)
z_loop(z_x, remaining) ==
    IF remaining = <<>> THEN [z_x |-> z_x, rows |-> <<>>]
    ELSE LET s == swap_z(z_x, partial_products_and_z_gx(z_x, Head(remaining)))
             r == z_loop(s.z_x, Tail(remaining))
         IN  [z_x |-> r.z_x, rows |-> <<s.row>> \o r.rows]

\* The polynomials returned: num_partial_products partial products, then Z.
wires_permutation_partial_products_and_zs(w, beta, gamma) ==
    transpose(z_loop(ONE, all_quotient_chunk_products(w, beta, gamma)).rows)

\* The value of z_x when the loop ends (the code drops it).
final_z_x(w, beta, gamma) ==
    z_loop(ONE, all_quotient_chunk_products(w, beta, gamma)).z_x

builder_panics(w, beta, gamma) ==
    \E i \in 1 .. degree : batch_inverse_panics(denominators(w, i, beta, gamma))

all_wires_permutation_partial_products_first_pair(w, bs, gs) ==
    [c \in 1 .. num_challenges |->
        wires_permutation_partial_products_and_zs(w, bs[1], gs[1])]
all_wires_permutation_partial_products(w, bs, gs) ==
    [c \in 1 .. num_challenges |->
        wires_permutation_partial_products_and_zs(w, bs[c], gs[c])]

\* Z is moved to the front of the batch: pop() the last polynomial of every
\* instance, then append what is left of every instance.
plonk_z_vecs_first(ppz) == [c \in 1 .. Len(ppz) |-> Head(ppz[c])]
plonk_z_vecs(ppz) == [c \in 1 .. Len(ppz) |-> Last(ppz[c])]
arrange_zs_partial_products_in_place(ppz) == Concat(ppz)
arrange_zs_partial_products(ppz) ==
    plonk_z_vecs(ppz) \o Concat([c \in 1 .. Len(ppz) |-> Front(ppz[c])])

\* common_data.zs_range() and partial_products_range(), as positions of the batch.
zs_range == 1 .. num_challenges
partial_products_range ==
    (num_challenges + 1) .. (num_challenges * (1 + num_partial_products))

(***************************************************************************)
(* The quotient evaluator, compute_quotient_polys.  lde_bits is            *)
(* quotient_degree_bits in prove; the device kernel of my_prove works on   *)
(* the whole committed extension, lde_bits = rate_bits.                    *)
(***************************************************************************)
BATCH_SIZE == 32

quotient_degree_bits == log2_ceil(quotient_degree_factor)
coset_shift == MultGenerator

\* PolynomialBatch::get_lde_values(index, step): the value of every committed
\* polynomial at point index * step of the committed extension, which lives on
\* the coset coset_shift * <w>, w of order degree * 2^rate_bits.
get_lde_values(commitment, index, step) ==
    LET x == Mul(coset_shift, RootPow(degree_bits + rate_bits, index * step))
    IN  [k \in 1 .. Len(commitment.polynomials) |-> eval(commitment.polynomials[k], x)]

\* ZeroPolyOnCoset: Z_H(x) = x^n - 1, its inverse, and L_0(x) = Z_H(x) / (n (x - 1)).
z_h_eval(x) == Sub(exp_power_of_2(x, degree_bits), ONE)
z_h_eval_inverse(x) == Inverse(z_h_eval(x))
eval_l_0(x) == Mul(z_h_eval(x), Inverse(Mul(degree % FieldOrder, Sub(x, ONE))))

\* plonk_common::reduce_with_powers: sum of terms[k] * alpha^(k-1).
reduce_with_powers(terms, alpha) ==
    Sum([k \in 1 .. Len(terms) |-> Mul(terms[k], Pow(alpha, k - 1))])

\* partial_products::check_partial_products: for every chunk,
\* prev_acc * prod(numerators of the chunk) - next_acc * prod(denominators of the chunk).
check_partial_products(nums, dens, partials, z_x, z_gx, max_degree) ==
    LET product_accs == <<z_x>> \o partials \o <<z_gx>>
        n_chunks == ceil_div_usize(Len(nums), max_degree)
        chunk(v, c) ==
            Product(SubSeq(v, (c - 1) * max_degree + 1, Min(c * max_degree, Len(v))))
    IN  [c \in 1 .. n_chunks |->
            Sub(Mul(product_accs[c], chunk(nums, c)),
                Mul(product_accs[c + 1], chunk(dens, c)))]

\* vanishing_poly::eval_vanishing_poly_base_batch at one point: the Z(1) = 1
\* terms of every instance, then the partial-product checks of every instance
\* (the circuit of the model has no gate constraints), combined with every alpha.
eval_vanishing_poly(x, local_wires, s_sigmas, local_zs, next_zs, partial_products, bs, gs, as) ==
    LET z_1_terms ==
            [c \in 1 .. num_challenges |-> Mul(eval_l_0(x), Sub(local_zs[c], ONE))]
        pp_terms(c) ==
            check_partial_products(
                [j \in 1 .. num_routed_wires |->
                    Add(Add(local_wires[j], Mul(bs[c], Mul(k_is(j), x))), gs[c])],
                [j \in 1 .. num_routed_wires |->
                    Add(Add(local_wires[j], Mul(bs[c], s_sigmas[j])), gs[c])],
                SubSeq(partial_products, (c - 1) * num_partial_products + 1,
                       c * num_partial_products),
                local_zs[c], next_zs[c], quotient_degree_factor)
        vanishing_terms ==
            z_1_terms \o Concat([c \in 1 .. num_challenges |-> pp_terms(c)])
    IN  [c \in 1 .. num_challenges |-> reduce_with_powers(vanishing_terms, as[c])]

\* let i_next = (i + next_step) % lde_size: the index of the "next" row.
i_next_unwrapped(i, next_step, lde_size) == i + next_step
i_next(i, next_step, lde_size) == (i + next_step) % lde_size

\* The value computed for the point of index i (0-based, as in the code).
quotient_values_at(i, lde_bits, wires_c, zs_pp_c, bs, gs, as) ==
    LET step == TwoPow(rate_bits - lde_bits)
        next_step == TwoPow(lde_bits)
        lde_size == TwoPow(degree_bits + lde_bits)
        shifted_x == Mul(coset_shift, RootPow(degree_bits + lde_bits, i))
        local_constants_sigmas == get_lde_values(constants_sigmas_commitment, i, step)
        local_wires == get_lde_values(wires_c, i, step)
        local_zs_partial_products == get_lde_values(zs_pp_c, i, step)
        next_zs_partial_products ==
            get_lde_values(zs_pp_c, i_next(i, next_step, lde_size), step)
        vanishing ==
            eval_vanishing_poly(shifted_x, local_wires, local_constants_sigmas,
                SubSeq(local_zs_partial_products, 1, num_challenges),
                SubSeq(next_zs_partial_products, 1, num_challenges),
                SubSeq(local_zs_partial_products, num_challenges + 1,
                       Len(local_zs_partial_products)),
                bs, gs, as)
        denominator_inv == z_h_eval_inverse(shifted_x)
    IN  [c \in 1 .. num_challenges |-> Mul(vanishing[c], denominator_inv)]

\* points.par_chunks(batch_size): batch batch_i (0-based) holds xs_batch_len
\* points, all batches batch_size of them except possibly the last.
xs_batch_len_full(batch_size, batch_i, lde_size) == batch_size
xs_batch_len(batch_size, batch_i, lde_size) ==
    Min(batch_size, lde_size - batch_size * batch_i)

\* The points of batch batch_i: the batch_i-th slice of par_chunks(batch_size).
xs_batch(batch_size, batch_i, points) ==
    SubSeq(points, batch_size * batch_i + 1,
           batch_size * batch_i + xs_batch_len(batch_size, batch_i, Len(points)))

\* indices_batch: (batch_size * batch_i .. batch_size * batch_i + xs_batch.len()).
indices_batch_from_zero(batch_size, batch_i, lde_size) ==
    [k \in 1 .. xs_batch_len(batch_size, batch_i, lde_size) |-> k - 1]
indices_batch(batch_size, batch_i, lde_size) ==
    [k \in 1 .. xs_batch_len(batch_size, batch_i, lde_size) |->
        batch_size * batch_i + k - 1]

\* The body of the parallel map over the batches: the quotient values of the
\* points of batch batch_i (0-based), one vector per point.
quotient_values_batch(batch_size, batch_i, lde_bits, wires_c, zs_pp_c, bs, gs, as) ==
    LET idx == indices_batch(batch_size, batch_i, TwoPow(degree_bits + lde_bits))
    IN  [k \in 1 .. Len(idx) |->
            quotient_values_at(idx[k], lde_bits, wires_c, zs_pp_c, bs, gs, as)]

\* The quotient values of all points, computed in batches of batch_size points;
\* flat_map concatenates the batches.
quotient_values_in_batches(batch_size, lde_bits, wires_c, zs_pp_c, bs, gs, as) ==
    LET lde_size == TwoPow(degree_bits + lde_bits)
        num_batches == ceil_div_usize(lde_size, batch_size)
    IN  Concat([b \in 1 .. num_batches |->
            quotient_values_batch(batch_size, b - 1, lde_bits, wires_c, zs_pp_c, bs, gs, as)])

\* transpose, then coset_ifft of every instance's value vector.
quotient_coeffs_in_batches_ifft(batch_size, lde_bits, wires_c, zs_pp_c, bs, gs, as) ==
    LET values == transpose(quotient_values_in_batches(batch_size, lde_bits,
                                wires_c, zs_pp_c, bs, gs, as))
    IN  [c \in 1 .. Len(values) |-> ifft(values[c])]
quotient_coeffs_in_batches(batch_size, lde_bits, wires_c, zs_pp_c, bs, gs, as) ==
    LET values == transpose(quotient_values_in_batches(batch_size, lde_bits,
                                wires_c, zs_pp_c, bs, gs, as))
    IN  [c \in 1 .. Len(values) |-> coset_ifft(values[c], coset_shift)]

\* The code's batches are of BATCH_SIZE points.
batch_indices(batch_i, lde_size) == indices_batch(BATCH_SIZE, batch_i, lde_size)

quotient_values(lde_bits, wires_c, zs_pp_c, bs, gs, as) ==
    quotient_values_in_batches(BATCH_SIZE, lde_bits, wires_c, zs_pp_c, bs, gs, as)

quotient_coeffs(lde_bits, wires_c, zs_pp_c, bs, gs, as) ==
    quotient_coeffs_in_batches(BATCH_SIZE, lde_bits, wires_c, zs_pp_c, bs, gs, as)

compute_quotient_polys(wires_c, zs_pp_c, bs, gs, as) ==
    quotient_coeffs(quotient_degree_bits, wires_c, zs_pp_c, bs, gs, as)

(***************************************************************************)
(* The opening set and the opening proof (collaborators).                  *)
(***************************************************************************)
eval_commitment(z, c) ==
    [k \in 1 .. Len(c.polynomials) |-> eval(c.polynomials[k], z)]

NoOpenings ==
    [constants |-> <<>>, plonk_sigmas |-> <<>>, wires |-> <<>>, plonk_zs |-> <<>>,
     plonk_zs_next |-> <<>>, partial_products |-> <<>>, quotient_polys |-> <<>>,
     built |-> FALSE]

\* OpeningSet::new: every committed polynomial at zeta, the Z polynomials also at g * zeta.
OpeningSet_new(z, g, constants_sigmas_c, wires_c, zs_pp_c, quotient_c) ==
    LET zs_partial_products_eval == eval_commitment(z, zs_pp_c)
    IN  [constants |-> <<>>,
         plonk_sigmas |-> eval_commitment(z, constants_sigmas_c),
         wires |-> eval_commitment(z, wires_c),
         plonk_zs |-> SubSeq(zs_partial_products_eval, 1, num_challenges),
         plonk_zs_next |->
             SubSeq(eval_commitment(Mul(g, z), zs_pp_c), 1, num_challenges),
         partial_products |->
             SubSeq(zs_partial_products_eval, num_challenges + 1,
                    Len(zs_partial_products_eval)),
         quotient_polys |-> eval_commitment(z, quotient_c),
         built |-> TRUE]

\* OpeningSet::to_fri_openings: the batch at zeta, then the batch at g * zeta.
to_fri_openings(os) ==
    os.constants \o os.plonk_sigmas \o os.wires \o os.plonk_zs
        \o os.partial_products \o os.quotient_polys \o os.plonk_zs_next

NoOpeningProof == [caps |-> <<>>, zeta |-> -1, fri_alpha |-> -1]

\* PolynomialBatch::prove_openings: opens the given commitments at the points of
\* the instance; it draws its own challenges from the challenger it is handed.
prove_openings(z, commitments, ch) ==
    [caps |-> [k \in 1 .. Len(commitments) |-> commitments[k].cap],
     zeta |-> z,
     fri_alpha |-> get_challenge(ch).out]

NoProof ==
    [wires_cap |-> -1, plonk_zs_partial_products_cap |-> -1,
     quotient_polys_cap |-> -1, openings |-> NoOpenings,
     opening_proof |-> NoOpeningProof, public_inputs |-> <<>>]

(***************************************************************************)
(* The shared device arena of my_prove (ctx.cache_mem_device).  A region   *)
(* is a range of element offsets of the arena; the regions are carved one  *)
(* after the other with split_at_mut.                                      *)
(***************************************************************************)
\* values_num_per_extpoly = values_num_per_poly * (1 << rate_bits).
values_num_per_extpoly == degree * TwoPow(rate_bits)

\* ctx.second_stage_offset: the arena up to it holds the extended wire values.
second_stage_offset == num_wires * values_num_per_extpoly

\* zs_partial_products.len() after the flat_map: the number of field elements.
zs_partial_products_len == Len(Concat(zs_partial_products))

Region(start, len) == [start |-> start, len |-> len]
region_end(r) == r.start + r.len

\* useCnt = zs_partial_products.len() << rate_bits; remained.split_at_mut(useCnt).
leaves_region ==
    Region(second_stage_offset, zs_partial_products_len * TwoPow(rate_bits))
\* useCnt = values_num_per_extpoly*2, twice.
d_quotient_polys_region ==
    Region(region_end(leaves_region), values_num_per_extpoly * 2)
d_outs_region ==
    Region(region_end(d_quotient_polys_region), values_num_per_extpoly * 2)
\* useCnt = num_challenges, three times.
d_alphas_region == Region(region_end(d_outs_region), num_challenges)
d_betas_region == Region(region_end(d_alphas_region), num_challenges)
d_gammas_region == Region(region_end(d_betas_region), num_challenges)

\* The region from_coeffs_with_gpu is told to commit: it starts at
\* second_stage_offset + (zs_partial_products.len() << rate_bits) and holds
\* num_challenges * (1 << rate_bits) polynomials of degree coefficients.
quotient_commitment_region ==
    Region(second_stage_offset + zs_partial_products_len * TwoPow(rate_bits),
           degree * (num_challenges * TwoPow(rate_bits)))

\* What the arena holds from the start of d_quotient_polys on, once the kernel
\* has run: the coefficients of the instances, as far as d_quotient_polys
\* reaches; what lies behind it is scratch memory of the kernel, which may
\* hold the remaining coefficients (fill = -1) or any other value.
DeviceFills == -1 .. MaxScratch
device_read(coeffs, len, fill) ==
    [p \in 1 .. len |->
        IF p <= d_quotient_polys_region.len \/ fill = -1 THEN coeffs[p] ELSE fill]

\* PolynomialBatch::from_coeffs_with_gpu: the commitment to the polynomials
\* found in the region it is told to commit.
from_coeffs_with_gpu(coeffs, fill) ==
    from_coeffs(chunks(device_read(coeffs, quotient_commitment_region.len, fill),
                       degree))

\* No earlier run.
NoRun == [path |-> "none"]

\* An output slot no worker has written yet.
NoSlot == <<>>
\* The batch size of the worker-by-worker evaluator: BATCH_SIZE scaled down
\* with the domain, so that a domain of the model is cut into several batches.
SMALL_BATCH_SIZE == MaxBatch
\* let num_batches = ceil_div_usize(points.len(), BATCH_SIZE).
num_batches == ceil_div_usize(TwoPow(degree_bits + quotient_degree_bits), SMALL_BATCH_SIZE)
\* The slots before any worker has run.
EmptyRowSlots == [i \in 1 .. degree |-> NoSlot]
EmptyBatchSlots == [b \in 1 .. num_batches |-> NoSlot]

(***************************************************************************)
(* Init: prove or my_prove is called on some circuit configuration.        *)
(***************************************************************************)
Init ==
    /\ path \in {"prove", "my_prove"}
    /\ num_routed_wires \in 1 .. MaxRoutedWires
    /\ quotient_degree_factor \in 1 .. MaxQuotientDegreeFactor
    /\ num_challenges \in 1 .. MaxChallenges
    /\ rate_bits \in 0 .. MaxRateBits
    /\ circuit_digest \in 0 .. MaxDigest
    /\ constants_sigmas_commitment = commit_constants_sigmas(num_routed_wires)
    /\ pc = "generate_witness"
    /\ result = "running"
    /\ log = <<>>
    /\ witness = <<>>
    /\ public_inputs = <<>>
    /\ public_inputs_hash = -1
    /\ wires_commitment = NoCommitment
    /\ challenger = -1
    /\ betas = <<>>
    /\ gammas = <<>>
    /\ partial_products_and_zs = <<>>
    /\ zs_partial_products = <<>>
    /\ partial_products_and_zs_commitment = NoCommitment
    /\ alphas = <<>>
    /\ quotient_polys = <<>>
    /\ all_quotient_poly_chunks = <<>>
    /\ quotient_polys_commitment = NoCommitment
    /\ zeta = -1
    /\ openings = NoOpenings
    /\ opening_proof = NoOpeningProof
    /\ proof = NoProof
    /\ previous = NoRun
    /\ row_slots = EmptyRowSlots
    /\ batch_slots = EmptyBatchSlots

(***************************************************************************)
(* The steps of prove and my_prove, in the order of the function body.     *)
(***************************************************************************)

\* generate_partial_witness, get_targets, hash_public_inputs, full_witness.
GenerateWitness ==
    \E v \in WireVals, bad \in 0 .. degree :
    /\ pc = "generate_witness"
    /\ previous # NoRun => full_witness(v, bad) = previous.witness
    /\ witness' = full_witness(v, bad)
    /\ public_inputs' = get_targets(full_witness(v, bad))
    /\ public_inputs_hash' = hash_no_pad(get_targets(full_witness(v, bad)))
    /\ pc' = "commit_wires"
    /\ log' = Append(log, "generate_witness")
    /\ UNCHANGED <<config, previous, slots, result, wires_commitment, challenger, betas,
                   gammas, partial_products_and_zs, zs_partial_products,
                   partial_products_and_zs_commitment, alphas, quotient_polys,
                   all_quotient_poly_chunks, quotient_polys_commitment, zeta,
                   openings, opening_proof, proof>>

\* PolynomialBatch::from_values (from_values_with_gpu in my_prove) of the wire
\* columns.  The circuits of the model are built with config.zero_knowledge
\* off, so no commitment is blinded.
CommitWires_salted ==
    /\ pc = "commit_wires"
    /\ wires_commitment' =
           [from_values(witness) EXCEPT !.cap = Add(@, IF previous = NoRun THEN 0 ELSE 1)]
    /\ pc' = "new_challenger"
    /\ log' = Append(log, "commit_wires")
    /\ UNCHANGED <<config, previous, slots, result, witness, public_inputs, public_inputs_hash,
                   challenger, betas, gammas, partial_products_and_zs,
                   zs_partial_products, partial_products_and_zs_commitment,
                   alphas, quotient_polys, all_quotient_poly_chunks,
                   quotient_polys_commitment, zeta, openings, opening_proof,
                   proof>>
CommitWires ==
    /\ pc = "commit_wires"
    /\ wires_commitment' = from_values(witness)
    /\ pc' = "new_challenger"
    /\ log' = Append(log, "commit_wires")
    /\ UNCHANGED <<config, previous, slots, result, witness, public_inputs, public_inputs_hash,
                   challenger, betas, gammas, partial_products_and_zs,
                   zs_partial_products, partial_products_and_zs_commitment,
                   alphas, quotient_polys, all_quotient_poly_chunks,
                   quotient_polys_commitment, zeta, openings, opening_proof,
                   proof>>

\* Challenger::new().
CreateChallenger_reused ==
    /\ pc = "new_challenger"
    /\ challenger' = IF challenger = -1 THEN NewChallenger ELSE challenger
    /\ pc' = "observe_circuit_digest"
    /\ log' = Append(log, "new_challenger")
    /\ UNCHANGED <<config, previous, slots, result, witness, public_inputs, public_inputs_hash,
                   wires_commitment, betas, gammas, partial_products_and_zs,
                   zs_partial_products, partial_products_and_zs_commitment,
                   alphas, quotient_polys, all_quotient_poly_chunks,
                   quotient_polys_commitment, zeta, openings, opening_proof,
                   proof>>
CreateChallenger ==
    /\ pc = "new_challenger"
    /\ challenger' = NewChallenger
    /\ pc' = "observe_circuit_digest"
    /\ log' = Append(log, "new_challenger")
    /\ UNCHANGED <<config, previous, slots, result, witness, public_inputs, public_inputs_hash,
                   wires_commitment, betas, gammas, partial_products_and_zs,
                   zs_partial_products, partial_products_and_zs_commitment,
                   alphas, quotient_polys, all_quotient_poly_chunks,
                   quotient_polys_commitment, zeta, openings, opening_proof,
                   proof>>

\* challenger.observe_hash(prover_data.circuit_digest).
ObserveCircuitDigest ==
    /\ pc = "observe_circuit_digest"
    /\ challenger' = observe_hash(challenger, circuit_digest)
    /\ pc' = "observe_public_inputs_hash"
    /\ log' = Append(log, "observe_circuit_digest")
    /\ UNCHANGED <<config, previous, slots, result, witness, public_inputs, public_inputs_hash,
                   wires_commitment, betas, gammas, partial_products_and_zs,
                   zs_partial_products, partial_products_and_zs_commitment,
                   alphas, quotient_polys, all_quotient_poly_chunks,
                   quotient_polys_commitment, zeta, openings, opening_proof,
                   proof>>

\* challenger.observe_hash(public_inputs_hash).
ObservePublicInputsHash ==
    /\ pc = "observe_public_inputs_hash"
    /\ challenger' = observe_hash(challenger, public_inputs_hash)
    /\ pc' = "observe_wires_cap"
    /\ log' = Append(log, "observe_public_inputs_hash")
    /\ UNCHANGED <<config, previous, slots, result, witness, public_inputs, public_inputs_hash,
                   wires_commitment, betas, gammas, partial_products_and_zs,
                   zs_partial_products, partial_products_and_zs_commitment,
                   alphas, quotient_polys, all_quotient_poly_chunks,
                   quotient_polys_commitment, zeta, openings, opening_proof,
                   proof>>

\* The observation of the wires cap is left out.
ObserveWiresCap_skipped ==
    /\ pc = "observe_wires_cap"
    /\ pc' = "get_betas"
    /\ UNCHANGED <<config, previous, slots, result, witness, public_inputs, public_inputs_hash,
                   wires_commitment, challenger, betas, gammas,
                   partial_products_and_zs, zs_partial_products,
                   partial_products_and_zs_commitment, alphas, quotient_polys,
                   all_quotient_poly_chunks, quotient_polys_commitment, zeta,
                   openings, opening_proof, proof, log>>

\* challenger.observe_cap(&wires_commitment.merkle_tree.cap).
ObserveWiresCap ==
    /\ pc = "observe_wires_cap"
    /\ challenger' = observe_cap(challenger, wires_commitment.cap)
    /\ pc' = "get_betas"
    /\ log' = Append(log, "observe_wires_cap")
    /\ UNCHANGED <<config, previous, slots, result, witness, public_inputs, public_inputs_hash,
                   wires_commitment, betas, gammas, partial_products_and_zs,
                   zs_partial_products, partial_products_and_zs_commitment,
                   alphas, quotient_polys, all_quotient_poly_chunks,
                   quotient_polys_commitment, zeta, openings, opening_proof,
                   proof>>

\* betas = challenger.get_n_challenges(num_challenges).
GetBetas ==
    /\ pc = "get_betas"
    /\ betas' = get_n_challenges(challenger, num_challenges).out
    /\ challenger' = get_n_challenges(challenger, num_challenges).state
    /\ pc' = "get_gammas"
    /\ log' = Append(log, "get_betas")
    /\ UNCHANGED <<config, previous, slots, result, witness, public_inputs, public_inputs_hash,
                   wires_commitment, gammas, partial_products_and_zs,
                   zs_partial_products, partial_products_and_zs_commitment,
                   alphas, quotient_polys, all_quotient_poly_chunks,
                   quotient_polys_commitment, zeta, openings, opening_proof,
                   proof>>

\* gammas = challenger.get_n_challenges(num_challenges).
GetGammas ==
    /\ pc = "get_gammas"
    /\ gammas' = get_n_challenges(challenger, num_challenges).out
    /\ challenger' = get_n_challenges(challenger, num_challenges).state
    /\ pc' = "assert_routed_wires"
    /\ log' = Append(log, "get_gammas")
    /\ UNCHANGED <<config, previous, slots, result, witness, public_inputs, public_inputs_hash,
                   wires_commitment, betas, partial_products_and_zs,
                   zs_partial_products, partial_products_and_zs_commitment,
                   alphas, quotient_polys, all_quotient_poly_chunks,
                   quotient_polys_commitment, zeta, openings, opening_proof,
                   proof>>

\* The condition of the assertion that precedes the permutation builder.
routed_wires_ok_le == quotient_degree_factor <= num_routed_wires
routed_wires_ok == quotient_degree_factor < num_routed_wires

\* The assertion is dropped: the run goes on to the builder whatever the configuration.
AssertRoutedWires_absent ==
    /\ pc = "assert_routed_wires"
    /\ pc' = "compute_partial_products"
    /\ log' = Append(log, "assert_routed_wires")
    /\ UNCHANGED <<config, previous, slots, result, witness, public_inputs, public_inputs_hash,
                   wires_commitment, challenger, betas, gammas,
                   partial_products_and_zs, zs_partial_products,
                   partial_products_and_zs_commitment, alphas, quotient_polys,
                   all_quotient_poly_chunks, quotient_polys_commitment, zeta,
                   openings, opening_proof, proof>>

\* assert!(common_data.quotient_degree_factor < common_data.config.num_routed_wires).
AssertRoutedWires ==
    /\ pc = "assert_routed_wires"
    /\ pc' = IF routed_wires_ok THEN "compute_partial_products" ELSE "aborted"
    /\ result' = IF routed_wires_ok THEN result ELSE "panic_routed_wires"
    /\ log' = Append(log, "assert_routed_wires")
    /\ UNCHANGED <<config, previous, slots, witness, public_inputs, public_inputs_hash,
                   wires_commitment, challenger, betas, gammas,
                   partial_products_and_zs, zs_partial_products,
                   partial_products_and_zs_commitment, alphas, quotient_polys,
                   all_quotient_poly_chunks, quotient_polys_commitment, zeta,
                   openings, opening_proof, proof>>

\* The panic of the builder is caught and the run goes on without its output.
ComputePartialProducts_resumes ==
    /\ pc = "compute_partial_products"
    /\ pc' = "arrange_zs"
    /\ IF \E c \in 1 .. num_challenges : builder_panics(witness, betas[c], gammas[c])
       THEN /\ result' = "panic_inverse_of_zero"
            /\ UNCHANGED partial_products_and_zs
       ELSE /\ result' = result
            /\ partial_products_and_zs' =
                   all_wires_permutation_partial_products(witness, betas, gammas)
    /\ log' = Append(log, "compute_partial_products")
    /\ UNCHANGED <<config, previous, slots, witness, public_inputs, public_inputs_hash,
                   wires_commitment, challenger, betas, gammas,
                   zs_partial_products, partial_products_and_zs_commitment,
                   alphas, quotient_polys, all_quotient_poly_chunks,
                   quotient_polys_commitment, zeta, openings, opening_proof,
                   proof>>
\* all_wires_permutation_partial_products: the builder, once per challenge
\* instance with (betas[i], gammas[i]); inverting a zero denominator panics.
ComputePartialProducts ==
    /\ pc = "compute_partial_products"
    /\ IF \E c \in 1 .. num_challenges : builder_panics(witness, betas[c], gammas[c])
       THEN /\ pc' = "aborted"
            /\ result' = "panic_inverse_of_zero"
            /\ UNCHANGED partial_products_and_zs
       ELSE /\ pc' = "arrange_zs"
            /\ result' = result
            /\ partial_products_and_zs' =
                   all_wires_permutation_partial_products(witness, betas, gammas)
    /\ log' = Append(log, "compute_partial_products")
    /\ UNCHANGED <<config, previous, slots, witness, public_inputs, public_inputs_hash,
                   wires_commitment, challenger, betas, gammas,
                   zs_partial_products, partial_products_and_zs_commitment,
                   alphas, quotient_polys, all_quotient_poly_chunks,
                   quotient_polys_commitment, zeta, openings, opening_proof,
                   proof>>

\* plonk_z_vecs = pop() of every instance; zs_partial_products = [plonk_z_vecs, rest].concat().
ArrangeZsPartialProducts ==
    /\ pc = "arrange_zs"
    /\ zs_partial_products' = arrange_zs_partial_products(partial_products_and_zs)
    /\ partial_products_and_zs' = [c \in 1 .. Len(partial_products_and_zs) |->
            Front(partial_products_and_zs[c])]
    /\ pc' = "commit_zs_partial_products"
    /\ log' = Append(log, "arrange_zs")
    /\ UNCHANGED <<config, previous, slots, result, witness, public_inputs, public_inputs_hash,
                   wires_commitment, challenger, betas, gammas,
                   partial_products_and_zs_commitment, alphas, quotient_polys,
                   all_quotient_poly_chunks, quotient_polys_commitment, zeta,
                   openings, opening_proof, proof>>

\* prove: PolynomialBatch::from_values(zs_partial_products).
\* my_prove: the values of all polynomials are flattened into one vector, which
\* from_values_with_gpu takes as len / degree polynomials of degree values.
CommitZsPartialProducts ==
    /\ pc = "commit_zs_partial_products"
    /\ partial_products_and_zs_commitment' =
           IF path = "prove" THEN from_values(zs_partial_products)
           ELSE from_values_with_gpu(Concat(zs_partial_products),
                    Len(Concat(zs_partial_products)) \div degree, degree)
    /\ pc' = "observe_zs_cap"
    /\ log' = Append(log, "commit_zs_partial_products")
    /\ UNCHANGED <<config, previous, slots, result, witness, public_inputs, public_inputs_hash,
                   wires_commitment, challenger, betas, gammas,
                   partial_products_and_zs, zs_partial_products, alphas,
                   quotient_polys, all_quotient_poly_chunks,
                   quotient_polys_commitment, zeta, openings, opening_proof,
                   proof>>

\* challenger.observe_cap(&partial_products_and_zs_commitment.merkle_tree.cap).
ObserveZsCap ==
    /\ pc = "observe_zs_cap"
    /\ challenger' = observe_cap(challenger, partial_products_and_zs_commitment.cap)
    /\ pc' = "get_alphas"
    /\ log' = Append(log, "observe_zs_cap")
    /\ UNCHANGED <<config, previous, slots, result, witness, public_inputs, public_inputs_hash,
                   wires_commitment, betas, gammas, partial_products_and_zs,
                   zs_partial_products, partial_products_and_zs_commitment,
                   alphas, quotient_polys, all_quotient_poly_chunks,
                   quotient_polys_commitment, zeta, openings, opening_proof,
                   proof>>

\* alphas = challenger.get_n_challenges(num_challenges).
GetAlphas ==
    /\ pc = "get_alphas"
    /\ alphas' = get_n_challenges(challenger, num_challenges).out
    /\ challenger' = get_n_challenges(challenger, num_challenges).state
    /\ pc' = IF path = "prove" THEN "compute_quotient_polys"
             ELSE "compute_quotient_polys_gpu"
    /\ log' = Append(log, "get_alphas")
    /\ UNCHANGED <<config, previous, slots, result, witness, public_inputs, public_inputs_hash,
                   wires_commitment, betas, gammas, partial_products_and_zs,
                   zs_partial_products, partial_products_and_zs_commitment,
                   quotient_polys, all_quotient_poly_chunks,
                   quotient_polys_commitment, zeta, openings, opening_proof,
                   proof>>

\* prove: compute_quotient_polys; it asserts quotient_degree_bits <= rate_bits
\* before it evaluates any point.
ComputeQuotientPolys ==
    /\ pc = "compute_quotient_polys"
    /\ IF quotient_degree_bits <= rate_bits
       THEN /\ pc' = "split_quotient_polys"
            /\ result' = result
            /\ quotient_polys' =
                   compute_quotient_polys(wires_commitment,
                       partial_products_and_zs_commitment, betas, gammas, alphas)
       ELSE /\ pc' = "aborted"
            /\ result' = "panic_rate_bits"
            /\ UNCHANGED quotient_polys
    /\ log' = Append(log, "compute_quotient_polys")
    /\ UNCHANGED <<config, previous, slots, witness, public_inputs, public_inputs_hash,
                   wires_commitment, challenger, betas, gammas,
                   partial_products_and_zs, zs_partial_products,
                   partial_products_and_zs_commitment, alphas,
                   all_quotient_poly_chunks, quotient_polys_commitment, zeta,
                   openings, opening_proof, proof>>

\* Whether trim_to_len(quotient_degree) succeeds on every quotient polynomial.
split_ok_unchecked(polys) == TRUE
split_ok(polys) == \A c \in 1 .. Len(polys) : trim_ok(polys[c], quotient_degree)

\* flat_map(|quotient_poly| { trim_to_len(quotient_degree); chunks(degree) }):
\* the chunks of every instance, the instances in order.
split_quotient_polys_chunk_major(polys) == Concat(transpose([c \in 1 .. Len(polys) |-> chunks(trim_to_len(polys[c], quotient_degree), degree)]))
split_quotient_polys(polys) ==
    Concat([c \in 1 .. Len(polys) |->
        chunks(trim_to_len(polys[c], quotient_degree), degree)])

\* prove: trim_to_len(quotient_degree).expect(..) of every quotient polynomial,
\* then chunks(degree); flat_map keeps the instances in order.
SplitQuotientPolys ==
    /\ pc = "split_quotient_polys"
    /\ IF split_ok(quotient_polys)
       THEN /\ pc' = "commit_quotient_polys"
            /\ result' = result
            /\ all_quotient_poly_chunks' = split_quotient_polys(quotient_polys)
       ELSE /\ pc' = "aborted"
            /\ result' = "panic_quotient_trim"
            /\ UNCHANGED all_quotient_poly_chunks
    /\ log' = Append(log, "split_quotient_polys")
    /\ UNCHANGED <<config, previous, slots, witness, public_inputs, public_inputs_hash,
                   wires_commitment, challenger, betas, gammas,
                   partial_products_and_zs, zs_partial_products,
                   partial_products_and_zs_commitment, alphas, quotient_polys,
                   quotient_polys_commitment, zeta, openings, opening_proof,
                   proof>>

\* The kernel also writes over the leaves of the Z/partial-products commitment.
ComputeQuotientPolysGpu_over_leaves ==
    /\ pc = "compute_quotient_polys_gpu"
    /\ quotient_polys' = quotient_coeffs(rate_bits, wires_commitment,
            partial_products_and_zs_commitment, betas, gammas, alphas)
    /\ partial_products_and_zs_commitment' =
           [partial_products_and_zs_commitment EXCEPT
               !.polynomials[1] = [k \in 1 .. degree |-> ZERO]]
    /\ pc' = "assert_quotient_degree"
    /\ log' = Append(log, "compute_quotient_polys")
    /\ UNCHANGED <<config, previous, slots, result, witness, public_inputs, public_inputs_hash,
                   wires_commitment, challenger, betas, gammas,
                   partial_products_and_zs, zs_partial_products, alphas,
                   all_quotient_poly_chunks, quotient_polys_commitment, zeta,
                   openings, opening_proof, proof>>
\* my_prove: plonky2_cuda::compute_quotient_polys fills d_quotient_polys with the
\* coefficients of every instance, computed over the whole committed extension.
ComputeQuotientPolysGpu ==
    /\ pc = "compute_quotient_polys_gpu"
    /\ quotient_polys' = quotient_coeffs(rate_bits, wires_commitment,
            partial_products_and_zs_commitment, betas, gammas, alphas)
    /\ pc' = "assert_quotient_degree"
    /\ log' = Append(log, "compute_quotient_polys")
    /\ UNCHANGED <<config, previous, slots, result, witness, public_inputs, public_inputs_hash,
                   wires_commitment, challenger, betas, gammas,
                   partial_products_and_zs, zs_partial_products,
                   partial_products_and_zs_commitment, alphas,
                   all_quotient_poly_chunks, quotient_polys_commitment, zeta,
                   openings, opening_proof, proof>>

\* my_prove: assert!(quotient_degree == (degree << config.fri_config.rate_bits)).
AssertQuotientDegree ==
    /\ pc = "assert_quotient_degree"
    /\ pc' = IF quotient_degree = degree * TwoPow(rate_bits) THEN "commit_quotient_polys" ELSE "aborted"
    /\ result' = IF quotient_degree = degree * TwoPow(rate_bits) THEN result ELSE "panic_quotient_degree"
    /\ log' = Append(log, "assert_quotient_degree")
    /\ UNCHANGED <<config, previous, slots, witness, public_inputs, public_inputs_hash,
                   wires_commitment, challenger, betas, gammas,
                   partial_products_and_zs, zs_partial_products,
                   partial_products_and_zs_commitment, alphas, quotient_polys,
                   all_quotient_poly_chunks, quotient_polys_commitment, zeta,
                   openings, opening_proof, proof>>

\* prove: PolynomialBatch::from_coeffs(all_quotient_poly_chunks).
\* my_prove: from_coeffs_with_gpu commits num_challenges * 2^rate_bits
\* polynomials of degree coefficients each, read from d_quotient_polys.
CommitQuotientPolys ==
    /\ pc = "commit_quotient_polys"
    /\ quotient_polys_commitment' \in
           IF path = "prove" THEN {from_coeffs(all_quotient_poly_chunks)}
           ELSE {from_coeffs_with_gpu(Concat(quotient_polys), fill) :
                    fill \in DeviceFills}
    /\ pc' = "observe_quotient_cap"
    /\ log' = Append(log, "commit_quotient_polys")
    /\ UNCHANGED <<config, previous, slots, result, witness, public_inputs, public_inputs_hash,
                   wires_commitment, challenger, betas, gammas,
                   partial_products_and_zs, zs_partial_products,
                   partial_products_and_zs_commitment, alphas, quotient_polys,
                   all_quotient_poly_chunks, zeta, openings, opening_proof,
                   proof>>

\* challenger.observe_cap(&quotient_polys_commitment.merkle_tree.cap).
ObserveQuotientCap ==
    /\ pc = "observe_quotient_cap"
    /\ challenger' = observe_cap(challenger, quotient_polys_commitment.cap)
    /\ pc' = "get_zeta"
    /\ log' = Append(log, "observe_quotient_cap")
    /\ UNCHANGED <<config, previous, slots, result, witness, public_inputs, public_inputs_hash,
                   wires_commitment, betas, gammas, partial_products_and_zs,
                   zs_partial_products, partial_products_and_zs_commitment,
                   alphas, quotient_polys, all_quotient_poly_chunks,
                   quotient_polys_commitment, zeta, openings, opening_proof,
                   proof>>

\* zeta = challenger.get_extension_challenge().
GetZeta ==
    /\ pc = "get_zeta"
    /\ zeta' = get_extension_challenge(challenger).out
    /\ challenger' = get_extension_challenge(challenger).state
    /\ pc' = "check_zeta"
    /\ log' = Append(log, "get_zeta")
    /\ UNCHANGED <<config, previous, slots, result, witness, public_inputs, public_inputs_hash,
                   wires_commitment, betas, gammas, partial_products_and_zs,
                   zs_partial_products, partial_products_and_zs_commitment,
                   alphas, quotient_polys, all_quotient_poly_chunks,
                   quotient_polys_commitment, openings, opening_proof, proof>>

\* The condition of ensure!: zeta^(2^degree_bits) = 1, the opening point is in H.
opening_point_in_subgroup_is_one(z) == z = ONE
opening_point_in_subgroup(z) == exp_power_of_2(z, degree_bits) = ONE

\* The run goes on to the openings whatever zeta is.
CheckZeta_unchecked ==
    /\ pc = "check_zeta"
    /\ pc' = "construct_openings"
    /\ log' = Append(log, "check_zeta")
    /\ UNCHANGED <<config, previous, slots, result, witness, public_inputs, public_inputs_hash,
                   wires_commitment, challenger, betas, gammas,
                   partial_products_and_zs, zs_partial_products,
                   partial_products_and_zs_commitment, alphas, quotient_polys,
                   all_quotient_poly_chunks, quotient_polys_commitment, zeta,
                   openings, opening_proof, proof>>
\* ensure!(zeta.exp_power_of_2(degree_bits) != ONE, "Opening point is in the subgroup.").
CheckZeta ==
    /\ pc = "check_zeta"
    /\ pc' = IF ~opening_point_in_subgroup(zeta) THEN "construct_openings" ELSE "aborted"
    /\ result' = IF ~opening_point_in_subgroup(zeta) THEN result
                 ELSE "err_opening_point_in_subgroup"
    /\ log' = Append(log, "check_zeta")
    /\ UNCHANGED <<config, previous, slots, witness, public_inputs, public_inputs_hash,
                   wires_commitment, challenger, betas, gammas,
                   partial_products_and_zs, zs_partial_products,
                   partial_products_and_zs_commitment, alphas, quotient_polys,
                   all_quotient_poly_chunks, quotient_polys_commitment, zeta,
                   openings, opening_proof, proof>>

\* OpeningSet::new(zeta, g, the four commitments).
ConstructOpenings ==
    /\ pc = "construct_openings"
    /\ openings' = OpeningSet_new(zeta, primitive_root_of_unity(degree_bits),
            constants_sigmas_commitment, wires_commitment,
            partial_products_and_zs_commitment, quotient_polys_commitment)
    /\ pc' = "observe_openings"
    /\ log' = Append(log, "construct_openings")
    /\ UNCHANGED <<config, previous, slots, result, witness, public_inputs, public_inputs_hash,
                   wires_commitment, challenger, betas, gammas,
                   partial_products_and_zs, zs_partial_products,
                   partial_products_and_zs_commitment, alphas, quotient_polys,
                   all_quotient_poly_chunks, quotient_polys_commitment, zeta,
                   opening_proof, proof>>

\* The observation of the openings is left out.
ObserveOpenings_skipped ==
    /\ pc = "observe_openings"
    /\ pc' = "prove_openings"
    /\ UNCHANGED <<config, previous, slots, result, witness, public_inputs, public_inputs_hash,
                   wires_commitment, challenger, betas, gammas,
                   partial_products_and_zs, zs_partial_products,
                   partial_products_and_zs_commitment, alphas, quotient_polys,
                   all_quotient_poly_chunks, quotient_polys_commitment, zeta,
                   openings, opening_proof, proof, log>>

\* challenger.observe_openings(&openings.to_fri_openings()).
ObserveOpenings ==
    /\ pc = "observe_openings"
    /\ challenger' = observe_openings(challenger, to_fri_openings(openings))
    /\ pc' = "prove_openings"
    /\ log' = Append(log, "observe_openings")
    /\ UNCHANGED <<config, previous, slots, result, witness, public_inputs, public_inputs_hash,
                   wires_commitment, betas, gammas, partial_products_and_zs,
                   zs_partial_products, partial_products_and_zs_commitment,
                   alphas, quotient_polys, all_quotient_poly_chunks,
                   quotient_polys_commitment, zeta, openings, opening_proof,
                   proof>>

\* The opening proof with the first two commitments in the other order.
ProveOpenings_wires_first ==
    /\ pc = "prove_openings"
    /\ opening_proof' = prove_openings(zeta,
            <<wires_commitment, constants_sigmas_commitment,
              partial_products_and_zs_commitment, quotient_polys_commitment>>,
            challenger)
    /\ challenger' = get_challenge(challenger).state
    /\ pc' = "assemble_proof"
    /\ log' = Append(log, "prove_openings")
    /\ UNCHANGED <<config, previous, slots, result, witness, public_inputs, public_inputs_hash,
                   wires_commitment, betas, gammas, partial_products_and_zs,
                   zs_partial_products, partial_products_and_zs_commitment,
                   alphas, quotient_polys, all_quotient_poly_chunks,
                   quotient_polys_commitment, zeta, openings, proof>>
\* PolynomialBatch::prove_openings over the four commitments, with &mut challenger.
ProveOpenings ==
    /\ pc = "prove_openings"
    /\ opening_proof' = prove_openings(zeta,
            <<constants_sigmas_commitment, wires_commitment,
              partial_products_and_zs_commitment, quotient_polys_commitment>>,
            challenger)
    /\ challenger' = get_challenge(challenger).state
    /\ pc' = "assemble_proof"
    /\ log' = Append(log, "prove_openings")
    /\ UNCHANGED <<config, previous, slots, result, witness, public_inputs, public_inputs_hash,
                   wires_commitment, betas, gammas, partial_products_and_zs,
                   zs_partial_products, partial_products_and_zs_commitment,
                   alphas, quotient_polys, all_quotient_poly_chunks,
                   quotient_polys_commitment, zeta, openings, proof>>

\* Proof { wires_cap, plonk_zs_partial_products_cap, quotient_polys_cap,
\* openings, opening_proof } and ProofWithPublicInputs { proof, public_inputs }.
make_proof_cap_reused(wires_c, zs_pp_c, quotient_c, os, op, pis) ==
    [wires_cap |-> wires_c.cap,
     plonk_zs_partial_products_cap |-> zs_pp_c.cap,
     quotient_polys_cap |-> zs_pp_c.cap,
     openings |-> os,
     opening_proof |-> op,
     public_inputs |-> pis]
make_proof(wires_c, zs_pp_c, quotient_c, os, op, pis) ==
    [wires_cap |-> wires_c.cap,
     plonk_zs_partial_products_cap |-> zs_pp_c.cap,
     quotient_polys_cap |-> quotient_c.cap,
     openings |-> os,
     opening_proof |-> op,
     public_inputs |-> pis]

\* The commitment caps a Proof carries, in the order of its fields.
proof_caps(p) ==
    <<p.wires_cap, p.plonk_zs_partial_products_cap, p.quotient_polys_cap>>

\* let proof = Proof { .. }; Ok(ProofWithPublicInputs { proof, public_inputs }).
AssembleProof ==
    /\ pc = "assemble_proof"
    /\ proof' = make_proof(wires_commitment, partial_products_and_zs_commitment,
                           quotient_polys_commitment, openings, opening_proof,
                           public_inputs)
    /\ pc' = "done"
    /\ result' = "ok"
    /\ log' = Append(log, "assemble_proof")
    /\ UNCHANGED <<config, previous, slots, witness, public_inputs, public_inputs_hash,
                   wires_commitment, challenger, betas, gammas,
                   partial_products_and_zs, zs_partial_products,
                   partial_products_and_zs_commitment, alphas, quotient_polys,
                   all_quotient_poly_chunks, quotient_polys_commitment, zeta,
                   openings, opening_proof>>

Next ==
    \/ GenerateWitness
    \/ CommitWires
    \/ CreateChallenger
    \/ ObserveCircuitDigest
    \/ ObservePublicInputsHash
    \/ ObserveWiresCap
    \/ GetBetas
    \/ GetGammas
    \/ AssertRoutedWires
    \/ ComputePartialProducts
    \/ ArrangeZsPartialProducts
    \/ CommitZsPartialProducts
    \/ ObserveZsCap
    \/ GetAlphas
    \/ ComputeQuotientPolys
    \/ SplitQuotientPolys
    \/ ComputeQuotientPolysGpu
    \/ AssertQuotientDegree
    \/ CommitQuotientPolys
    \/ ObserveQuotientCap
    \/ GetZeta
    \/ CheckZeta
    \/ ConstructOpenings
    \/ ObserveOpenings
    \/ ProveOpenings
    \/ AssembleProof

Spec == Init /\ [][Next]_vars

(***************************************************************************)
(* A second call in the same process, on the same circuit and the same     *)
(* inputs, after a call of prove has returned.  Every local of the earlier *)
(* call is gone; the slot of the challenger is shown with whatever the     *)
(* earlier call left in it, since only Challenger::new() gives it a value. *)
(***************************************************************************)
\* What a run has observed and drawn, in the order of the transcript.
RunTranscript ==
    <<circuit_digest, public_inputs_hash, wires_commitment.cap, betas, gammas,
      partial_products_and_zs_commitment.cap, alphas,
      quotient_polys_commitment.cap, zeta, to_fri_openings(openings),
      opening_proof.fri_alpha>>

Ended == pc \in {"done", "aborted"}

\* The positions of a run in the body of prove and of my_prove.
PcLabels ==
    {"generate_witness", "commit_wires", "new_challenger", "observe_circuit_digest",
     "observe_public_inputs_hash", "observe_wires_cap", "get_betas", "get_gammas",
     "assert_routed_wires", "compute_partial_products", "arrange_zs",
     "commit_zs_partial_products", "observe_zs_cap", "get_alphas",
     "compute_quotient_polys", "split_quotient_polys", "compute_quotient_polys_gpu",
     "assert_quotient_degree", "commit_quotient_polys", "observe_quotient_cap",
     "get_zeta", "check_zeta", "construct_openings", "observe_openings",
     "prove_openings", "assemble_proof", "done", "aborted"}

\* The call moves on: it has not returned and its position changes.
Advance == ~Ended /\ pc' \in PcLabels /\ pc' # pc

\* prove and my_prove are straight-line functions run by one thread, with no
\* lock, no wait and no loop without a bound: a call that has not returned
\* moves on.  Every step of Next changes pc and a step of Next can be taken
\* exactly when the call has not returned, so this is weak fairness of Next.
SpecLive == Init /\ [][Next]_vars /\ WF_pc(Advance)

RunAgain ==
    /\ Ended
    /\ previous = NoRun
    /\ path = "prove"
    /\ previous' = [path |-> path, result |-> result, proof |-> proof,
                    witness |-> witness, transcript |-> RunTranscript]
    /\ path' \in {"prove", "my_prove"}
    /\ pc' = "generate_witness"
    /\ result' = "running"
    /\ log' = <<>>
    /\ witness' = <<>>
    /\ public_inputs' = <<>>
    /\ public_inputs_hash' = -1
    /\ wires_commitment' = NoCommitment
    /\ betas' = <<>>
    /\ gammas' = <<>>
    /\ partial_products_and_zs' = <<>>
    /\ zs_partial_products' = <<>>
    /\ partial_products_and_zs_commitment' = NoCommitment
    /\ alphas' = <<>>
    /\ quotient_polys' = <<>>
    /\ all_quotient_poly_chunks' = <<>>
    /\ quotient_polys_commitment' = NoCommitment
    /\ zeta' = -1
    /\ openings' = NoOpenings
    /\ opening_proof' = NoOpeningProof
    /\ proof' = NoProof
    /\ UNCHANGED <<num_routed_wires, quotient_degree_factor, num_challenges,
                   rate_bits, circuit_digest, constants_sigmas_commitment,
                   challenger, slots>>

NextRerun == Next \/ RunAgain

SpecRerun == Init /\ [][NextRerun]_vars

(***************************************************************************)
(* The parallel maps, worker by worker.  The map over the rows (par_iter   *)
(* over subgroup) and the map over the batches (par_chunks over points)    *)
(* run one closure call per index, in any order; collect() places the      *)
(* result of call i at position i.  SpecWorkers is Spec with the two maps  *)
(* taken one worker at a time.                                             *)
(***************************************************************************)
\* The challenge instance the builder is working on: all_wires_permutation_
\* partial_products calls the builder once per instance, one after the other.
builder_instance == Len(partial_products_and_zs) + 1

\* collect(): the position at which the result of worker i is placed.
slot_in_completion_order(i, filled) == 1 + Cardinality({k \in DOMAIN filled : filled[k] # NoSlot})
slot_of_worker(i, filled) == i

\* One call of the closure of the map over the rows, for row i.
RowWorker ==
    \E i \in 1 .. degree :
    /\ pc = "compute_partial_products"
    /\ row_slots[i] = NoSlot
    /\ IF batch_inverse_panics(denominators(witness, i, betas[builder_instance],
                                            gammas[builder_instance]))
       THEN /\ pc' = "aborted"
            /\ result' = "panic_inverse_of_zero"
            /\ log' = Append(log, "compute_partial_products")
            /\ UNCHANGED row_slots
       ELSE /\ row_slots' =
                   [row_slots EXCEPT ![slot_of_worker(i, row_slots)] =
                       row_chunk_products(witness, i, betas[builder_instance],
                                          gammas[builder_instance])]
            /\ UNCHANGED <<pc, result, log>>
    /\ UNCHANGED <<config, previous, batch_slots, witness, public_inputs,
                   public_inputs_hash, wires_commitment, challenger, betas, gammas,
                   partial_products_and_zs, zs_partial_products,
                   partial_products_and_zs_commitment, alphas, quotient_polys,
                   all_quotient_poly_chunks, quotient_polys_commitment, zeta,
                   openings, opening_proof, proof>>

\* The rows are collected: the sequential loop over the rows and transpose give
\* the polynomials of the instance; the builder returns, and is called for the
\* next instance if there is one.
CollectRows ==
    /\ pc = "compute_partial_products"
    /\ \A i \in 1 .. degree : row_slots[i] # NoSlot
    /\ partial_products_and_zs' =
           Append(partial_products_and_zs, transpose(z_loop(ONE, row_slots).rows))
    /\ row_slots' = EmptyRowSlots
    /\ pc' = IF builder_instance = num_challenges THEN "arrange_zs" ELSE pc
    /\ log' = IF builder_instance = num_challenges
              THEN Append(log, "compute_partial_products") ELSE log
    /\ UNCHANGED <<config, previous, batch_slots, result, witness, public_inputs,
                   public_inputs_hash, wires_commitment, challenger, betas, gammas,
                   zs_partial_products, partial_products_and_zs_commitment,
                   alphas, quotient_polys, all_quotient_poly_chunks,
                   quotient_polys_commitment, zeta, openings, opening_proof,
                   proof>>

\* The assertion is dropped: the function returns without a panic.
QuotientRateAssertFails_dropped ==
    /\ pc = "compute_quotient_polys"
    /\ ~(quotient_degree_bits <= rate_bits)
    /\ pc' = "split_quotient_polys"
    /\ log' = Append(log, "compute_quotient_polys")
    /\ UNCHANGED <<config, previous, slots, result, witness, public_inputs,
                   public_inputs_hash, wires_commitment, challenger, betas, gammas,
                   partial_products_and_zs, zs_partial_products,
                   partial_products_and_zs_commitment, alphas, quotient_polys,
                   all_quotient_poly_chunks, quotient_polys_commitment, zeta,
                   openings, opening_proof, proof>>
\* compute_quotient_polys: the assertion quotient_degree_bits <= rate_bits fails.
QuotientRateAssertFails ==
    /\ pc = "compute_quotient_polys"
    /\ ~(quotient_degree_bits <= rate_bits)
    /\ pc' = "aborted"
    /\ result' = "panic_rate_bits"
    /\ log' = Append(log, "compute_quotient_polys")
    /\ UNCHANGED <<config, previous, slots, witness, public_inputs,
                   public_inputs_hash, wires_commitment, challenger, betas, gammas,
                   partial_products_and_zs, zs_partial_products,
                   partial_products_and_zs_commitment, alphas, quotient_polys,
                   all_quotient_poly_chunks, quotient_polys_commitment, zeta,
                   openings, opening_proof, proof>>

\* One call of the closure of the map over the batches, for batch b (0-based).
BatchWorker ==
    \E b \in 0 .. (num_batches - 1) :
    /\ pc = "compute_quotient_polys"
    /\ quotient_degree_bits <= rate_bits
    /\ batch_slots[b + 1] = NoSlot
    /\ batch_slots' =
           [batch_slots EXCEPT ![slot_of_worker(b + 1, batch_slots)] =
               quotient_values_batch(SMALL_BATCH_SIZE, b, quotient_degree_bits,
                   wires_commitment, partial_products_and_zs_commitment,
                   betas, gammas, alphas)]
    /\ UNCHANGED <<config, previous, row_slots, pc, result, log, witness,
                   public_inputs, public_inputs_hash, wires_commitment, challenger,
                   betas, gammas, partial_products_and_zs, zs_partial_products,
                   partial_products_and_zs_commitment, alphas, quotient_polys,
                   all_quotient_poly_chunks, quotient_polys_commitment, zeta,
                   openings, opening_proof, proof>>

\* The batches are collected; transpose and coset_ifft give the polynomials.
CollectBatches ==
    /\ pc = "compute_quotient_polys"
    /\ \A b \in 1 .. num_batches : batch_slots[b] # NoSlot
    /\ quotient_polys' =
           [c \in 1 .. num_challenges |->
               coset_ifft(transpose(Concat(batch_slots))[c], coset_shift)]
    /\ batch_slots' = EmptyBatchSlots
    /\ pc' = "split_quotient_polys"
    /\ log' = Append(log, "compute_quotient_polys")
    /\ UNCHANGED <<config, previous, row_slots, result, witness, public_inputs,
                   public_inputs_hash, wires_commitment, challenger, betas, gammas,
                   partial_products_and_zs, zs_partial_products,
                   partial_products_and_zs_commitment, alphas,
                   all_quotient_poly_chunks, quotient_polys_commitment, zeta,
                   openings, opening_proof, proof>>

NextWorkers ==
    \/ GenerateWitness
    \/ CommitWires
    \/ CreateChallenger
    \/ ObserveCircuitDigest
    \/ ObservePublicInputsHash
    \/ ObserveWiresCap
    \/ GetBetas
    \/ GetGammas
    \/ AssertRoutedWires
    \/ RowWorker
    \/ CollectRows
    \/ ArrangeZsPartialProducts
    \/ CommitZsPartialProducts
    \/ ObserveZsCap
    \/ GetAlphas
    \/ QuotientRateAssertFails
    \/ BatchWorker
    \/ CollectBatches
    \/ SplitQuotientPolys
    \/ ComputeQuotientPolysGpu
    \/ AssertQuotientDegree
    \/ CommitQuotientPolys
    \/ ObserveQuotientCap
    \/ GetZeta
    \/ CheckZeta
    \/ ConstructOpenings
    \/ ObserveOpenings
    \/ ProveOpenings
    \/ AssembleProof

SpecWorkers == Init /\ [][NextWorkers]_vars

(***************************************************************************)
(* Properties.                                                             *)
(***************************************************************************)
Happened(op) == \E i \in 1 .. Len(log) : log[i] = op
Count(op) == Cardinality({i \in 1 .. Len(log) : log[i] = op})
Pos(op) == CHOOSE i \in 1 .. Len(log) : log[i] = op /\ \A j \in 1 .. (i - 1) : log[j] # op
\* b has happened only if a happened, once, earlier.
Before(a, b) == Happened(b) => (Count(a) = 1 /\ Pos(a) < Pos(b))
IsPrefix(s, t) == Len(s) <= Len(t) /\ SubSeq(t, 1, Len(s)) = s
RECURSIVE Filter(_, _)
Filter(s, keep) ==
    IF s = <<>> THEN <<>>
    ELSE (IF Head(s) \in keep THEN <<Head(s)>> ELSE <<>>) \o Filter(Tail(s), keep)

\* C1: in a run of prove, a challenge is drawn only after the data it binds was
\* observed by the same challenger: betas and gammas after circuit digest,
\* public-input hash and wires cap; alphas after the Z/partial-products cap; zeta
\* after the quotient cap; the opening proof starts after the openings were
\* observed.  The challenges drawn are those of a transcript holding that data.
C1_ChallengesAfterObservations ==
    path = "prove" =>
        /\ Count("new_challenger") <= 1
        /\ \A o \in {"observe_circuit_digest", "observe_public_inputs_hash",
                     "observe_wires_cap"} :
               /\ Before("new_challenger", o)
               /\ Before(o, "get_betas")
               /\ Before(o, "get_gammas")
        /\ Before("observe_zs_cap", "get_alphas")
        /\ Before("observe_quotient_cap", "get_zeta")
        /\ Before("observe_openings", "prove_openings")
        /\ Happened("get_betas") =>
               betas = get_n_challenges(
                           AbsorbAll(NewChallenger,
                               <<circuit_digest, public_inputs_hash,
                                 wires_commitment.cap>>),
                           num_challenges).out

C1_Witness ==
    /\ path = "prove"
    /\ result = "ok"
    /\ Happened("prove_openings")
    /\ Len(betas) = 2

\* C2: a run of prove that returns a proof has executed the five rounds once
\* each, in order: commit wires, observe digest, public-input hash and wires cap,
\* draw betas then gammas; build and commit Z/partial products, observe the cap,
\* draw alphas; compute and commit the quotient, observe the cap, draw zeta;
\* check zeta; build the openings, observe them, prove openings, assemble.
RoundOps ==
    <<"commit_wires", "observe_circuit_digest", "observe_public_inputs_hash",
      "observe_wires_cap", "get_betas", "get_gammas",
      "compute_partial_products", "commit_zs_partial_products", "observe_zs_cap",
      "get_alphas",
      "compute_quotient_polys", "commit_quotient_polys", "observe_quotient_cap",
      "get_zeta",
      "check_zeta",
      "construct_openings", "observe_openings", "prove_openings",
      "assemble_proof">>

C2_FiveRoundsInOrder ==
    (path = "prove" /\ result = "ok") =>
        Filter(log, {RoundOps[i] : i \in 1 .. Len(RoundOps)}) = RoundOps

C2_Witness ==
    /\ path = "prove"
    /\ result = "ok"
    /\ proof # NoProof
    /\ num_challenges = 2

\* C3: when the drawn zeta satisfies zeta^(2^degree_bits) = 1 the run ends in a
\* fatal error: no OpeningSet is built, no openings are observed, no opening
\* proof is computed, no Proof is returned, and zeta is not drawn again.
C3_ZetaInSubgroupIsFatal ==
    (zeta # -1 /\ exp_power_of_2(zeta, degree_bits) = ONE) =>
        /\ pc = "check_zeta" \/ result = "err_opening_point_in_subgroup"
        /\ pc \in {"check_zeta", "aborted"}
        /\ openings = NoOpenings
        /\ ~Happened("construct_openings")
        /\ ~Happened("observe_openings")
        /\ ~Happened("prove_openings")
        /\ opening_proof = NoOpeningProof
        /\ proof = NoProof
        /\ Count("get_zeta") = 1

C3_Witness ==
    /\ result = "err_opening_point_in_subgroup"
    /\ zeta # ONE
    /\ exp_power_of_2(zeta, degree_bits) = ONE

\* The operations that precede the routed-wires assertion, and those that
\* precede the evaluation of the quotient in prove.
OpsThroughRoutedWiresAssert ==
    <<"generate_witness", "commit_wires", "new_challenger",
      "observe_circuit_digest", "observe_public_inputs_hash",
      "observe_wires_cap", "get_betas", "get_gammas", "assert_routed_wires">>

OpsThroughQuotientAssert ==
    OpsThroughRoutedWiresAssert \o
    <<"compute_partial_products", "arrange_zs", "commit_zs_partial_products",
      "observe_zs_cap", "get_alphas", "compute_quotient_polys">>

ComputationOps ==
    {"generate_witness", "commit_wires", "new_challenger",
     "observe_circuit_digest", "observe_public_inputs_hash", "observe_wires_cap",
     "get_betas", "get_gammas"}

C5_RoutedWiresAssertGuardsBuilder ==
    quotient_degree_factor >= num_routed_wires =>
        /\ ~Happened("compute_partial_products")
        /\ ~Happened("commit_zs_partial_products")
        /\ partial_products_and_zs = <<>>
        /\ zs_partial_products = <<>>
        /\ partial_products_and_zs_commitment = NoCommitment
        /\ proof = NoProof
        /\ result \in {"running", "panic_routed_wires"}
        /\ Happened("assert_routed_wires") =>
               (pc = "aborted" /\ result = "panic_routed_wires")

C5_Witness ==
    /\ path = "my_prove"
    /\ quotient_degree_factor = num_routed_wires
    /\ quotient_degree_factor > 1
    /\ result = "panic_routed_wires"

\* The product, over the routed wires of row i, of
\* (wire + beta * k_j * x + gamma) / (wire + beta * sigma + gamma).
RowRatio(w, i, beta, gamma) ==
    Mul(Product([j \in 1 .. num_routed_wires |->
            Add(Add(w[j][i], Mul(beta, Mul(k_is(j), subgroup[i]))), gamma)]),
        Inverse(Product([j \in 1 .. num_routed_wires |->
            Add(Add(w[j][i], Mul(beta, sigmas(i, j))), gamma)])))

\* The product of all per-row chunk products over the whole subgroup.
GrandProduct(w, beta, gamma) ==
    Product([i \in 1 .. degree |-> RowRatio(w, i, beta, gamma)])

ChallengesDrawn == Len(betas) = num_challenges /\ Len(gammas) = num_challenges

\* Some instance's grand product over the whole subgroup is not 1.
TelescopingFails ==
    /\ ChallengesDrawn
    /\ ~(\E c \in 1 .. num_challenges : builder_panics(witness, betas[c], gammas[c]))
    /\ \E c \in 1 .. num_challenges : GrandProduct(witness, betas[c], gammas[c]) # ONE

\* C6: for a witness that violates a copy constraint (the product of all
\* per-row chunk products over the subgroup is not 1) the builder's telescoping
\* check fails: the builder returns no Z/partial-product polynomials and no
\* proof is produced.
C6_TelescopingCheckRejects ==
    TelescopingFails =>
        /\ partial_products_and_zs = <<>>
        /\ zs_partial_products = <<>>
        /\ partial_products_and_zs_commitment = NoCommitment
        /\ result # "ok"
        /\ proof = NoProof

\* C7: in prove, when an interpolated quotient polynomial has a non-zero
\* coefficient at an index >= quotient_degree, trimming fails and the run
\* aborts: no quotient commitment, its cap is never observed, zeta is never
\* drawn, no Proof is returned.
HighCoefficient ==
    \E c \in 1 .. Len(quotient_polys) :
        \E k \in (quotient_degree + 1) .. Len(quotient_polys[c]) :
            quotient_polys[c][k] # ZERO

C7_TrimFailureIsFatal ==
    (path = "prove" /\ HighCoefficient) =>
        /\ pc = "split_quotient_polys" \/ result = "panic_quotient_trim"
        /\ pc \in {"split_quotient_polys", "aborted"}
        /\ all_quotient_poly_chunks = <<>>
        /\ quotient_polys_commitment = NoCommitment
        /\ ~Happened("commit_quotient_polys")
        /\ ~Happened("observe_quotient_cap")
        /\ ~Happened("get_zeta")
        /\ zeta = -1
        /\ proof = NoProof

C7_Witness ==
    /\ path = "prove"
    /\ HighCoefficient
    /\ result = "panic_quotient_trim"
    /\ Len(quotient_polys[1]) > quotient_degree

\* C8: the Z column returned by the builder has Z(row 0) = 1 and, for every
\* row i < degree - 1, Z(row i+1) = Z(row i) * (product of the chunk products
\* of row i): slot i holds Z at row i, not at row i+1.
ZColumnTelescopes(w, beta, gamma, Z) ==
    /\ Len(Z) = degree
    /\ Z[1] = ONE
    /\ \A i \in 1 .. (degree - 1) : Z[i + 1] = Mul(Z[i], RowRatio(w, i, beta, gamma))

C8_ZColumnAligned ==
    pc = "arrange_zs" =>
        \A c \in 1 .. num_challenges :
            /\ Len(partial_products_and_zs[c]) = num_partial_products + 1
            /\ ZColumnTelescopes(witness, betas[c], gammas[c],
                                 Last(partial_products_and_zs[c]))

C8_Witness ==
    /\ pc = "arrange_zs"
    /\ num_partial_products >= 1
    /\ \E i \in 2 .. degree :
           /\ Last(partial_products_and_zs[1])[i] # ONE
           /\ Last(partial_products_and_zs[1])[i] # Last(partial_products_and_zs[1])[2]

\* The polynomials of instance c as the builder returns them.
BuilderOutput(c) ==
    wires_permutation_partial_products_and_zs(witness, betas[c], gammas[c])

\* C9 as stated: in the batch just committed every instance's polynomials form one
\* contiguous block, the instance's Z first, its partial products after it.
C9_PerInstanceBlocks ==
    pc = "observe_zs_cap" =>
        \A c \in 1 .. num_challenges :
            LET base == (c - 1) * (1 + num_partial_products)
                out == BuilderOutput(c)
            IN  /\ zs_partial_products[base + 1] = Last(out)
                /\ \A k \in 1 .. num_partial_products :
                       zs_partial_products[base + 1 + k] = out[k]

\* C9 as amended: the batch just committed holds the Z polynomials of all instances
\* first, in instance order, and after them the partial products of instance
\* 0, then of instance 1, and so on; an instance's Z is followed by its own
\* partial products only when there is one instance or no partial product.
C9_ZsAtFrontOfBatch ==
    pc = "observe_zs_cap" =>
        /\ Len(zs_partial_products) = num_challenges * (1 + num_partial_products)
        /\ partial_products_and_zs_commitment.polynomials =
               [k \in 1 .. Len(zs_partial_products) |-> ifft(zs_partial_products[k])]
        /\ \A c \in 1 .. num_challenges :
               LET out == BuilderOutput(c)
               IN  /\ zs_partial_products[c] = Last(out)
                   /\ \A k \in 1 .. num_partial_products :
                          zs_partial_products[num_challenges
                                              + (c - 1) * num_partial_products + k]
                              = out[k]

C9_Witness ==
    /\ pc = "observe_zs_cap"
    /\ num_challenges = 2
    /\ num_partial_products >= 2
    /\ zs_partial_products[2] # zs_partial_products[3]

MyProveAfterProve == previous # NoRun /\ path = "my_prove" /\ Ended

\* C11: given the same inputs and the same commitment oracle, my_prove makes
\* the observations and draws of prove, in the same order and with the same
\* values, and returns the Proof and public inputs prove returns.
C11_MyProveEqualsProve ==
    (MyProveAfterProve /\ previous.result = "ok") =>
        /\ result = "ok"
        /\ RunTranscript = previous.transcript
        /\ proof = previous.proof

\* The class of the way a run ended.
ErrorClass(r) ==
    CASE r = "ok" -> "ok"
      [] r \in {"panic_routed_wires", "panic_rate_bits", "panic_quotient_degree"} -> "configuration"
      [] r = "err_opening_point_in_subgroup" -> "degenerate_challenge"
      [] r \in {"panic_quotient_trim", "panic_inverse_of_zero"} -> "algebraic"
      [] OTHER -> "running"

\* C12: my_prove returns a proof exactly when prove does, and when prove ends
\* in a fatal error my_prove ends in a fatal error of the same class.
C12_SameFailures ==
    MyProveAfterProve => ErrorClass(result) = ErrorClass(previous.result)

(***************************************************************************)
(* The quotient polynomials.                                               *)
(***************************************************************************)
\* The batch sizes compared: small ones, which split the domain in several
\* batches, and the one of the code, which is larger than the domain here.
BatchSizes == (1 .. MaxBatch) \cup {BATCH_SIZE}

\* C13: the quotient polynomials computed by compute_quotient_polys are those
\* computed with any other batch size B >= 1, whether B divides the size of
\* the domain, leaves a smaller last batch or exceeds the domain.
C13_BatchSizeIrrelevant ==
    (path = "prove" /\ pc = "split_quotient_polys") =>
        \A B \in BatchSizes :
            quotient_coeffs_in_batches(B, quotient_degree_bits, wires_commitment,
                partial_products_and_zs_commitment, betas, gammas, alphas)
                = quotient_polys

C13_Witness ==
    /\ path = "prove"
    /\ pc = "split_quotient_polys"
    /\ \E B \in BatchSizes :
          /\ B < TwoPow(degree_bits + quotient_degree_bits)
          /\ TwoPow(degree_bits + quotient_degree_bits) % B # 0
    /\ \E c \in 1 .. Len(quotient_polys) :
          \E k \in 1 .. Len(quotient_polys[c]) : quotient_polys[c][k] # ZERO

\* The witness satisfies every copy constraint of the circuit.
WitnessValid ==
    /\ witness # <<>>
    /\ \A i \in 1 .. degree, j \in 1 .. num_routed_wires :
          get_wire(witness, sigma_row(i, j), sigma_col(i, j)) = get_wire(witness, i, j)

\* The combined constraint value of instance c at the point of row i of the
\* original domain: the constraints of eval_vanishing_poly on the committed
\* polynomials evaluated at subgroup[i] (and, for Z, at the next row), where
\* L_0 is 1 on the first row and 0 elsewhere.
CombinedConstraintOnSubgroup(i, c) ==
    LET x == subgroup[i]
        x_next == subgroup[(i % degree) + 1]
        local_wires == eval_commitment(x, wires_commitment)
        s_sigmas == eval_commitment(x, constants_sigmas_commitment)
        local == eval_commitment(x, partial_products_and_zs_commitment)
        next == eval_commitment(x_next, partial_products_and_zs_commitment)
        l_0_x == IF i = 1 THEN ONE ELSE ZERO
        z_1_terms == [d \in 1 .. num_challenges |-> Mul(l_0_x, Sub(local[d], ONE))]
        pp_terms(d) ==
            check_partial_products(
                [j \in 1 .. num_routed_wires |->
                    Add(Add(local_wires[j], Mul(betas[d], Mul(k_is(j), x))), gammas[d])],
                [j \in 1 .. num_routed_wires |->
                    Add(Add(local_wires[j], Mul(betas[d], s_sigmas[j])), gammas[d])],
                SubSeq(local, num_challenges + (d - 1) * num_partial_products + 1,
                       num_challenges + d * num_partial_products),
                local[d], next[d], quotient_degree_factor)
        terms == z_1_terms \o Concat([d \in 1 .. num_challenges |-> pp_terms(d)])
    IN  reduce_with_powers(terms, alphas[c])

\* The combined constraint value of instance c at point p (0-based) of the
\* coset the quotient was computed on, before the division.
CombinedConstraintOnCoset(p, c) ==
    LET bits == IF path = "prove" THEN quotient_degree_bits ELSE rate_bits
        x == Mul(coset_shift, RootPow(degree_bits + bits, p))
    IN  Mul(quotient_values_at(p, bits, wires_commitment,
                partial_products_and_zs_commitment, betas, gammas, alphas)[c],
            z_h_eval(x))

QuotientComputed ==
    \/ path = "prove" /\ pc = "split_quotient_polys"
    \/ path = "my_prove" /\ pc = "assert_quotient_degree"

\* C14: for a valid witness, every quotient polynomial, evaluated at a point
\* of the original domain and multiplied by the vanishing polynomial at that
\* point, gives the combined constraint value of its instance at that point;
\* the same holds at every point of the coset the quotient was computed on.
C14_QuotientRoundTrip ==
    (QuotientComputed /\ WitnessValid) =>
        \A c \in 1 .. num_challenges :
            /\ \A i \in 1 .. degree :
                   Mul(eval(quotient_polys[c], subgroup[i]), z_h_eval(subgroup[i]))
                       = CombinedConstraintOnSubgroup(i, c)
            /\ \A p \in 0 .. (Len(quotient_polys[c]) - 1) :
                   LET x == Mul(coset_shift, RootPow(Log2Len(Len(quotient_polys[c])), p))
                   IN  Mul(eval(quotient_polys[c], x), z_h_eval(x))
                           = CombinedConstraintOnCoset(p, c)

C14_Witness ==
    /\ QuotientComputed
    /\ WitnessValid
    /\ num_challenges > 1
    /\ num_partial_products > 0
    /\ \E c \in 1 .. num_challenges :
          \E k \in 1 .. Len(quotient_polys[c]) : quotient_polys[c][k] # ZERO

(***************************************************************************)
(* Two runs in one process.                                                *)
(***************************************************************************)
\* The entries of RunTranscript.
T_circuit_digest == 1
T_public_inputs_hash == 2
T_wires_cap == 3
T_betas == 4
T_gammas == 5
T_zs_cap == 6
T_alphas == 7
T_quotient_cap == 8
T_zeta == 9
T_openings == 10
T_fri_alpha == 11

\* Entry k of transcript t, a challenge, has been drawn.  Both this run and
\* the earlier one have drawn entry k, and what they had observed before
\* drawing it, the entries obs, was the same.
Drawn(t, k) ==
    IF k \in {T_betas, T_gammas, T_alphas} THEN t[k] # <<>> ELSE t[k] # -1

SameObserved(k, obs) ==
    /\ Drawn(RunTranscript, k)
    /\ Drawn(previous.transcript, k)
    /\ \A o \in obs : RunTranscript[o] = previous.transcript[o]

\* C15: the challenges of a run are determined by what this run has observed:
\* a run that follows another run in the same process, and has observed the
\* same circuit digest, public-input hash, caps and openings, draws the same
\* betas, gammas, alphas, zeta and opening challenge; nothing the earlier run
\* left behind enters the transcript.
C15_ChallengesFromThisRunOnly ==
    previous # NoRun =>
        /\ SameObserved(T_betas, 1 .. 3) => betas = previous.transcript[T_betas]
        /\ SameObserved(T_gammas, 1 .. 3) => gammas = previous.transcript[T_gammas]
        /\ SameObserved(T_alphas, {1, 2, 3, 6}) => alphas = previous.transcript[T_alphas]
        /\ SameObserved(T_zeta, {1, 2, 3, 6, 8}) => zeta = previous.transcript[T_zeta]
        /\ SameObserved(T_fri_alpha, {1, 2, 3, 6, 8, 10}) =>
               opening_proof.fri_alpha = previous.transcript[T_fri_alpha]

C15_Witness ==
    /\ previous # NoRun
    /\ result = "ok"
    /\ num_challenges > 1
    /\ SameObserved(T_fri_alpha, {1, 2, 3, 6, 8, 10})
    /\ zeta = previous.transcript[T_zeta]

\* prove has run twice, on the same circuit and the same inputs, and both
\* runs returned a proof.
ProvedTwice ==
    /\ previous # NoRun
    /\ path = "prove"
    /\ previous.result = "ok"
    /\ result = "ok"

\* C16: two runs on the same inputs yield different commitment caps and a
\* different zeta.
C16_RerunDiffers ==
    ProvedTwice =>
        /\ wires_commitment.cap # previous.transcript[T_wires_cap]
        /\ partial_products_and_zs_commitment.cap # previous.transcript[T_zs_cap]
        /\ quotient_polys_commitment.cap # previous.transcript[T_quotient_cap]
        /\ zeta # previous.transcript[T_zeta]

\* C16 as amended: the transcript takes no seed, so with commitments that are
\* not blinded a second run of prove on the same inputs ends as the first
\* did, with the same caps, the same challenges and the same Proof.
C16_RerunRepeats ==
    (previous # NoRun /\ path = "prove" /\ Ended) =>
        /\ result = previous.result
        /\ RunTranscript = previous.transcript
        /\ proof = previous.proof

C16_Witness ==
    /\ ProvedTwice
    /\ num_challenges > 1
    /\ proof # NoProof
    /\ zeta = previous.transcript[T_zeta]
    /\ quotient_polys_commitment.cap = previous.transcript[T_quotient_cap]

(***************************************************************************)
(* The permutation round.                                                  *)
(***************************************************************************)
\* (wire(i,j) + beta*k_j*x + gamma) / (wire(i,j) + beta*sigma(i,j) + gamma),
\* where x is the subgroup point of row i.
WireRatio(i, j, beta, gamma) ==
    Mul(Add(Add(witness[j][i], Mul(beta, Mul(k_is(j), subgroup[i]))), gamma),
        Inverse(Add(Add(witness[j][i], Mul(beta, sigmas(i, j))), gamma)))

\* The product of the ratios of chunks 0..k (counted from 0) of row i: the
\* wires of the first k + 1 chunks of quotient_degree_factor wires.
ChunksThrough(i, k, beta, gamma) ==
    LET n == Min((k + 1) * quotient_degree_factor, num_routed_wires)
    IN  Product([j \in 1 .. n |-> WireRatio(i, j, beta, gamma)])

\* C17: for every instance the builder returns num_partial_products + 1
\* polynomials of degree values each, Z being the last; the value of partial
\* product k (counted from 0) at row i is Z at row i times the product of the
\* ratios of chunks 0..k of row i, a chunk being quotient_degree_factor
\* consecutive routed wires.
C17_BuilderColumns ==
    pc = "arrange_zs" =>
        \A c \in 1 .. num_challenges :
            LET out == partial_products_and_zs[c]
                Z == out[num_partial_products + 1]
            IN  /\ Len(out) = num_partial_products + 1
                /\ \A k \in 1 .. Len(out) : Len(out[k]) = degree
                /\ \A i \in 1 .. degree, k \in 0 .. (num_partial_products - 1) :
                       out[k + 1][i] =
                           Mul(Z[i], ChunksThrough(i, k, betas[c], gammas[c]))

C17_Witness ==
    /\ pc = "arrange_zs"
    /\ num_challenges > 1
    /\ num_partial_products > 0
    /\ num_routed_wires % quotient_degree_factor # 0
    /\ \E i \in 1 .. degree :
          partial_products_and_zs[1][1][i] #
              partial_products_and_zs[1][num_partial_products + 1][i]

\* The position, in the committed batch, of polynomial k of instance c as the
\* builder returns it (k = num_partial_products + 1 is the instance's Z).
BatchPosition(c, k) ==
    IF k = num_partial_products + 1 THEN c
    ELSE num_challenges + (c - 1) * num_partial_products + k

\* C18: the batch committed in the permutation round holds
\* num_challenges * (1 + num_partial_products) polynomials: the Z of instance
\* 0, 1, ... first, then the partial products of instance 0, of instance 1,
\* ..., in index order; every polynomial the builder returned is at exactly
\* one position of the batch, and every position holds one of them.
C18_BatchIsRearrangedBuilderOutput ==
    pc = "observe_zs_cap" =>
        LET batch == partial_products_and_zs_commitment.polynomials
        IN  /\ Len(batch) = num_challenges * (1 + num_partial_products)
            /\ \A c \in 1 .. num_challenges, k \in 1 .. (num_partial_products + 1) :
                   batch[BatchPosition(c, k)] = ifft(BuilderOutput(c)[k])
            /\ \A p \in 1 .. Len(batch) :
                   Cardinality({ck \in (1 .. num_challenges)
                                       \X (1 .. (num_partial_products + 1)) :
                                   BatchPosition(ck[1], ck[2]) = p}) = 1
            /\ \A c \in 1 .. num_challenges :
                   Len(partial_products_and_zs[c]) = num_partial_products

C18_Witness ==
    /\ pc = "observe_zs_cap"
    /\ path = "my_prove"
    /\ num_challenges = 3
    /\ num_partial_products > 0
    /\ partial_products_and_zs_commitment.polynomials[3] #
           partial_products_and_zs_commitment.polynomials[4]

\* C19: betas, gammas and alphas have num_challenges elements each once they
\* are drawn; instance c of the builder's output is the one built with
\* (betas[c], gammas[c]); and the quotient polynomials are those the evaluator
\* computes from the same betas and gammas, over a committed batch whose Z of
\* instance c is still the one built with (betas[c], gammas[c]).
C19_SamePairInBothStages ==
    /\ Len(betas) \in {0, num_challenges}
    /\ Len(gammas) \in {0, num_challenges}
    /\ Len(alphas) \in {0, num_challenges}
    /\ pc = "arrange_zs" =>
           \A c \in 1 .. num_challenges : partial_products_and_zs[c] = BuilderOutput(c)
    /\ QuotientComputed =>
           /\ Len(alphas) = num_challenges
           /\ \A c \in 1 .. num_challenges :
                  partial_products_and_zs_commitment.polynomials[c]
                      = ifft(Last(BuilderOutput(c)))
           /\ quotient_polys =
                  quotient_coeffs(IF path = "prove" THEN quotient_degree_bits ELSE rate_bits,
                      wires_commitment, partial_products_and_zs_commitment,
                      betas, gammas, alphas)

C19_Witness ==
    /\ QuotientComputed
    /\ num_challenges = 3
    /\ betas[1] # betas[2]
    /\ gammas[2] # gammas[3]
    /\ partial_products_and_zs_commitment.polynomials[1] #
           partial_products_and_zs_commitment.polynomials[2]

(***************************************************************************)
(* The device arena of my_prove.                                           *)
(***************************************************************************)
Overlap(r1, r2) ==
    /\ r1.len > 0
    /\ r2.len > 0
    /\ r1.start < region_end(r2)
    /\ r2.start < region_end(r1)

\* C20: the region of the arena my_prove hands to the quotient commitment
\* starts where d_quotient_polys starts, lies within d_quotient_polys and
\* overlaps none of d_outs, d_alphas, d_betas and d_gammas, whatever
\* num_challenges is.
C20_QuotientRegionWithinItsSlice ==
    (path = "my_prove" /\ pc = "observe_quotient_cap") =>
        /\ quotient_commitment_region.start = d_quotient_polys_region.start
        /\ region_end(quotient_commitment_region) <= region_end(d_quotient_polys_region)
        /\ ~Overlap(quotient_commitment_region, d_outs_region)
        /\ ~Overlap(quotient_commitment_region, d_alphas_region)
        /\ ~Overlap(quotient_commitment_region, d_betas_region)
        /\ ~Overlap(quotient_commitment_region, d_gammas_region)

(***************************************************************************)
(* The extended domain of the quotient evaluator.                          *)
(***************************************************************************)
\* prove has evaluated the quotient: compute_quotient_polys has returned.
QuotientEvaluated == path = "prove" /\ pc = "split_quotient_polys"

\* C21: for every index i of the extended domain, i_next is
\* (i + 2^quotient_degree_bits) mod lde_size, lies in [0, lde_size) and
\* addresses g * points[i], with g a generator of the base subgroup of order
\* degree, both in points and in the committed extension read with step; the
\* last 2^quotient_degree_bits indices wrap around to the start.
C21_NextRowIndex ==
    QuotientEvaluated =>
        LET step == TwoPow(rate_bits - quotient_degree_bits)
            next_step == TwoPow(quotient_degree_bits)
            points == two_adic_subgroup(degree_bits + quotient_degree_bits)
            lde_size == Len(points)
            g == primitive_root_of_unity(degree_bits)
        IN  /\ Cardinality({Pow(g, k) : k \in 0 .. (degree - 1)}) = degree
            /\ Pow(g, degree) = ONE
            /\ \A i \in 0 .. (lde_size - 1) :
                  LET n == i_next(i, next_step, lde_size)
                  IN  /\ n \in 0 .. (lde_size - 1)
                      /\ n = IF i < lde_size - next_step THEN i + next_step
                             ELSE i - (lde_size - next_step)
                      /\ points[n + 1] = Mul(g, points[i + 1])
                      /\ get_lde_values(partial_products_and_zs_commitment, n, step)
                             = eval_commitment(
                                   Mul(g, Mul(coset_shift, points[i + 1])),
                                   partial_products_and_zs_commitment)

C21_Witness ==
    /\ QuotientEvaluated
    /\ quotient_degree_bits > 0
    /\ rate_bits > quotient_degree_bits
    /\ \E k \in 1 .. num_challenges :
          partial_products_and_zs_commitment.polynomials[k][2] # ZERO

\* C22: the batches partition the extended domain.  Batch b holds the
\* consecutive indices B*b .. B*b + len - 1, each paired with its own point;
\* every batch but the last has exactly B points and the last has at most B;
\* every index of [0, lde_size) is in exactly one batch; the collected result
\* has one value vector per index, in index order.  B ranges over the batch
\* size of the code and over sizes that split the domain of the model.
C22_BatchesPartitionDomain ==
    QuotientEvaluated =>
        \A B \in BatchSizes :
            LET points == two_adic_subgroup(degree_bits + quotient_degree_bits)
                lde_size == Len(points)
                n_batches == ceil_div_usize(lde_size, B)
                idx(b) == indices_batch(B, b, lde_size)
                collected ==
                    quotient_values_in_batches(B, quotient_degree_bits,
                        wires_commitment, partial_products_and_zs_commitment,
                        betas, gammas, alphas)
            IN  /\ \A b \in 0 .. (n_batches - 1) :
                      /\ B * b + Len(idx(b)) <= lde_size
                      /\ Len(idx(b)) = Len(xs_batch(B, b, points))
                      /\ Len(idx(b)) >= 1
                      /\ Len(idx(b)) <= B
                      /\ b < n_batches - 1 => Len(idx(b)) = B
                      /\ \A k \in 1 .. Len(idx(b)) :
                            /\ idx(b)[k] = B * b + k - 1
                            /\ xs_batch(B, b, points)[k] = points[idx(b)[k] + 1]
                /\ \A i \in 0 .. (lde_size - 1) :
                      Cardinality({<<b, k>> \in (0 .. (n_batches - 1)) \X (1 .. B) :
                                      k <= Len(idx(b)) /\ idx(b)[k] = i}) = 1
                /\ Len(collected) = lde_size
                /\ \A i \in 0 .. (lde_size - 1) :
                      collected[i + 1] =
                          quotient_values_at(i, quotient_degree_bits,
                              wires_commitment, partial_products_and_zs_commitment,
                              betas, gammas, alphas)

C22_Witness ==
    /\ QuotientEvaluated
    /\ quotient_degree_bits > 0
    /\ 3 \in BatchSizes
    /\ ceil_div_usize(TwoPow(degree_bits + quotient_degree_bits), 3) > 2
    /\ xs_batch_len(3, ceil_div_usize(TwoPow(degree_bits + quotient_degree_bits), 3) - 1,
                    TwoPow(degree_bits + quotient_degree_bits)) < 3
    /\ \E i \in 1 .. TwoPow(degree_bits + quotient_degree_bits) :
          transpose(quotient_polys)[i] # [c \in 1 .. num_challenges |-> ZERO]

(***************************************************************************)
(* The order of the parallel workers.                                      *)
(***************************************************************************)
\* What the workers read: the inputs of the two parallel maps.
WorkerInputs ==
    <<config, witness, betas, gammas, alphas, wires_commitment,
      partial_products_and_zs_commitment>>

\* Every slot written so far holds what sequential execution computes for its
\* index, and what has been collected is what sequential execution returns.
WorkersAgreeWithSequential ==
    /\ pc = "compute_partial_products" =>
          /\ \A i \in 1 .. degree :
                row_slots[i] # NoSlot =>
                    row_slots[i] = row_chunk_products(witness, i,
                                       betas[builder_instance], gammas[builder_instance])
          /\ \A c \in 1 .. Len(partial_products_and_zs) :
                partial_products_and_zs[c] =
                    wires_permutation_partial_products_and_zs(witness, betas[c], gammas[c])
    /\ pc = "arrange_zs" =>
          /\ ~ \E c \in 1 .. num_challenges :
                   builder_panics(witness, betas[c], gammas[c])
          /\ partial_products_and_zs =
                 all_wires_permutation_partial_products(witness, betas, gammas)
    /\ result = "panic_inverse_of_zero" =>
          \E c \in 1 .. num_challenges : builder_panics(witness, betas[c], gammas[c])
    /\ (path = "prove" /\ pc = "compute_quotient_polys") =>
          \A b \in 1 .. num_batches :
              batch_slots[b] # NoSlot =>
                  batch_slots[b] =
                      quotient_values_batch(SMALL_BATCH_SIZE, b - 1, quotient_degree_bits,
                          wires_commitment, partial_products_and_zs_commitment,
                          betas, gammas, alphas)
    /\ QuotientEvaluated =>
          quotient_polys =
              compute_quotient_polys(wires_commitment,
                  partial_products_and_zs_commitment, betas, gammas, alphas)

\* A step that writes a slot leaves what the workers read and what has been
\* collected as it is, changes no slot that is already written, and writes
\* one slot only.
WorkerStepIsLocal ==
    (\/ \E i \in 1 .. degree : row_slots[i] = NoSlot /\ row_slots'[i] # NoSlot
     \/ \E b \in 1 .. num_batches : batch_slots[b] = NoSlot /\ batch_slots'[b] # NoSlot) =>
        /\ WorkerInputs' = WorkerInputs
        /\ UNCHANGED <<partial_products_and_zs, quotient_polys>>
        /\ \A i \in 1 .. degree : row_slots[i] # NoSlot => row_slots'[i] = row_slots[i]
        /\ \A b \in 1 .. num_batches :
              batch_slots[b] # NoSlot => batch_slots'[b] = batch_slots[b]
        /\ Cardinality({i \in 1 .. degree : row_slots'[i] # row_slots[i]})
             + Cardinality({b \in 1 .. num_batches : batch_slots'[b] # batch_slots[b]}) = 1

\* C23: in every interleaving of the per-row workers of the permutation
\* builder and of the per-batch workers of the quotient evaluator, a worker
\* reads only inputs no worker changes and writes only the slot of its own
\* index, once; the collected output is that of sequential execution in index
\* order, and the run panics exactly when sequential execution would.
C23_WorkerOrderIrrelevant ==
    /\ []WorkersAgreeWithSequential
    /\ [][WorkerStepIsLocal]_vars

\* The worker of the last batch has run before the worker of the first one, on
\* a circuit whose builder ran for several instances.
C23_Witness ==
    /\ path = "prove"
    /\ pc = "compute_quotient_polys"
    /\ num_challenges > 1
    /\ num_batches > 2
    /\ batch_slots[num_batches] # NoSlot
    /\ batch_slots[2] # NoSlot
    /\ batch_slots[1] = NoSlot

(***************************************************************************)
(* The chunks of the quotient polynomials.                                 *)
(***************************************************************************)
\* prove has committed to the chunks of the quotient polynomials.
QuotientCommitted == path = "prove" /\ pc = "observe_quotient_cap"

\* C24: in prove every quotient polynomial is cut down to exactly
\* quotient_degree coefficients (those cut off are zero) and split into
\* quotient_degree_factor consecutive chunks of degree coefficients; the
\* committed list holds the chunks of the first instance, then those of the
\* second, and so on, in coefficient order, and the chunks of an instance put
\* end to end are its trimmed polynomial.
C24_QuotientChunks ==
    QuotientCommitted =>
        LET committed == quotient_polys_commitment.polynomials
        IN  /\ Len(committed) = num_challenges * quotient_degree_factor
            /\ committed = all_quotient_poly_chunks
            /\ \A c \in 1 .. num_challenges :
                  LET trimmed == trim_to_len(quotient_polys[c], quotient_degree)
                      first == (c - 1) * quotient_degree_factor
                  IN  /\ Len(trimmed) = quotient_degree
                      /\ \A k \in (quotient_degree + 1) .. Len(quotient_polys[c]) :
                            quotient_polys[c][k] = ZERO
                      /\ \A k \in 1 .. quotient_degree_factor :
                            /\ Len(committed[first + k]) = degree
                            /\ committed[first + k] =
                                   SubSeq(trimmed, (k - 1) * degree + 1, k * degree)
                      /\ Concat(SubSeq(committed, first + 1,
                                       first + quotient_degree_factor)) = trimmed

C24_Witness ==
    /\ QuotientCommitted
    /\ num_challenges > 1
    /\ quotient_degree_factor > 1
    /\ \E k \in 1 .. quotient_degree_factor :
          /\ all_quotient_poly_chunks[k] # all_quotient_poly_chunks[quotient_degree_factor + k]
          /\ all_quotient_poly_chunks[k] # [j \in 1 .. degree |-> ZERO]
    /\ all_quotient_poly_chunks[1] # all_quotient_poly_chunks[2]
    /\ Len(quotient_polys[1]) > quotient_degree

(***************************************************************************)
(* The opening points.                                                     *)
(***************************************************************************)
\* The evaluation subgroup H, as a set.
H == {subgroup[i] : i \in 1 .. degree}

\* C25: with g = primitive_root_of_unity(degree_bits) and n = 2^degree_bits,
\* (g * z)^n = z^n for every z, so z^n # 1 puts both z and g * z outside H; and
\* in a run that has passed the check of zeta, neither zeta nor g * zeta is in H.
C25_CheckingZetaSuffices ==
    LET g == primitive_root_of_unity(degree_bits)
    IN  /\ \A z \in F :
              /\ exp_power_of_2(Mul(g, z), degree_bits) = exp_power_of_2(z, degree_bits)
              /\ ~opening_point_in_subgroup(z) => (z \notin H /\ Mul(g, z) \notin H)
        /\ (Happened("check_zeta") /\ result # "err_opening_point_in_subgroup") =>
              (zeta \notin H /\ Mul(g, zeta) \notin H)

C25_Witness ==
    /\ pc = "construct_openings"
    /\ zeta # ZERO
    /\ Mul(primitive_root_of_unity(degree_bits), zeta) # zeta
    /\ zeta \notin H
    /\ \E k \in 1 .. num_challenges :
          eval(partial_products_and_zs_commitment.polynomials[k], zeta)
              # eval(partial_products_and_zs_commitment.polynomials[k],
                     Mul(primitive_root_of_unity(degree_bits), zeta))

(***************************************************************************)
(* The precondition of the quotient evaluator.                             *)
(***************************************************************************)
\* compute_quotient_polys has evaluated a point: a batch has been computed or
\* the polynomials have been returned.
SomePointEvaluated ==
    \/ \E b \in 1 .. num_batches : batch_slots[b] # NoSlot
    \/ path = "prove" /\ quotient_polys # <<>>

\* C26: compute_quotient_polys evaluates no point unless
\* log2_ceil(quotient_degree_factor) <= rate_bits.  When that holds,
\* rate_bits - quotient_degree_bits is not negative and step * lde_size is the
\* size degree * 2^rate_bits of the committed extension, so every index read
\* lies in it; when it does not hold, the run of prove ends in the panic of
\* the assertion, with no point evaluated and no later step executed.
C26_RatePrecondition ==
    /\ SomePointEvaluated => quotient_degree_bits <= rate_bits
    /\ quotient_degree_bits <= rate_bits =>
          LET step == TwoPow(rate_bits - quotient_degree_bits)
              lde_size == Len(two_adic_subgroup(degree_bits + quotient_degree_bits))
          IN  /\ rate_bits - quotient_degree_bits >= 0
              /\ step * lde_size = degree * TwoPow(rate_bits)
              /\ \A i \in 0 .. (lde_size - 1) : i * step < degree * TwoPow(rate_bits)
    /\ (path = "prove" /\ Happened("compute_quotient_polys")
           /\ ~(quotient_degree_bits <= rate_bits)) =>
          /\ pc = "aborted"
          /\ result = "panic_rate_bits"
          /\ Last(log) = "compute_quotient_polys"
          /\ ~SomePointEvaluated

C26_Witness ==
    /\ path = "prove"
    /\ pc = "aborted"
    /\ result = "panic_rate_bits"
    /\ quotient_degree_bits = rate_bits + 1
    /\ partial_products_and_zs_commitment # NoCommitment
    /\ alphas # <<>>

(***************************************************************************)
(* The commitments of the opening proof.                                   *)
(***************************************************************************)
\* The caps the transcript has observed, in the order of their observation.
observed_caps ==
    Concat([k \in 1 .. Len(log) |->
        IF log[k] = "observe_wires_cap" THEN <<wires_commitment.cap>>
        ELSE IF log[k] = "observe_zs_cap" THEN <<partial_products_and_zs_commitment.cap>>
        ELSE IF log[k] = "observe_quotient_cap" THEN <<quotient_polys_commitment.cap>>
        ELSE <<>>])

\* The state of a transcript that has observed the circuit digest, the hash
\* of the public inputs, the three caps given (each followed by the challenges
\* of its round) and the openings, and has served the opening proof.
transcript_of(caps) ==
    LET c1 == observe_hash(NewChallenger, circuit_digest)
        c2 == observe_hash(c1, public_inputs_hash)
        c3 == observe_cap(c2, caps[1])
        c4 == get_n_challenges(c3, num_challenges).state
        c5 == get_n_challenges(c4, num_challenges).state
        c6 == observe_cap(c5, caps[2])
        c7 == get_n_challenges(c6, num_challenges).state
        c8 == observe_cap(c7, caps[3])
        c9 == get_extension_challenge(c8).state
        c10 == observe_openings(c9, to_fri_openings(openings))
    IN  get_challenge(c10).state

\* prove has produced the opening proof.
OpeningProofProduced == path = "prove" /\ Happened("prove_openings")

\* The opening proof is over the four commitments, in the order
\* constants/sigmas, wires, Z/partial-products, quotient, and the OpeningSet
\* was built from the same four.
OpenedJointly ==
    /\ opening_proof.caps =
           <<constants_sigmas_commitment.cap, wires_commitment.cap,
             partial_products_and_zs_commitment.cap, quotient_polys_commitment.cap>>
    /\ opening_proof.zeta = zeta
    /\ openings =
           OpeningSet_new(zeta, primitive_root_of_unity(degree_bits),
               constants_sigmas_commitment, wires_commitment,
               partial_products_and_zs_commitment, quotient_polys_commitment)

\* C27 as stated: the opening proof is over the four commitments jointly, in
\* the order constants/sigmas, wires, Z/partial-products, quotient; the
\* OpeningSet was built from the same four; and the transcript has observed
\* the cap of each of the four.
C27_FourCapsInTranscript ==
    OpeningProofProduced =>
        /\ OpenedJointly
        /\ Len(observed_caps) = Len(opening_proof.caps)
        /\ \A k \in 1 .. Len(opening_proof.caps) :
              \E j \in 1 .. Len(observed_caps) : observed_caps[j] = opening_proof.caps[k]

\* C27 as amended: the opening proof is over the four commitments jointly, in
\* that order, and the OpeningSet was built from the same four; the transcript
\* has observed the caps of three of them (wires, Z/partial-products, quotient,
\* in that order), and of the circuit it has observed the circuit digest, not
\* the cap of the constants/sigmas commitment.
C27_ThreeCapsInTranscript ==
    OpeningProofProduced =>
        /\ OpenedJointly
        /\ observed_caps = SubSeq(opening_proof.caps, 2, 4)
        /\ Happened("observe_circuit_digest")
        /\ challenger = transcript_of(SubSeq(opening_proof.caps, 2, 4))

C27_Witness ==
    /\ OpeningProofProduced
    /\ openings.built
    /\ Cardinality({opening_proof.caps[k] : k \in 1 .. 4}) = 4
    /\ opening_proof.caps[1] # circuit_digest
    /\ num_challenges > 1

(***************************************************************************)
(* The commitments after they are produced.                                *)
(***************************************************************************)
\* The three commitments a run produces.
RunCommitments ==
    <<wires_commitment, partial_products_and_zs_commitment, quotient_polys_commitment>>

\* A step changes no commitment that has been produced, nor the commitment of
\* the circuit data.
CommitmentsKept ==
    /\ constants_sigmas_commitment' = constants_sigmas_commitment
    /\ \A k \in 1 .. 3 :
          RunCommitments[k] # NoCommitment => RunCommitments'[k] = RunCommitments[k]

\* The part of the arena of my_prove that holds the extended wire values.
wires_region == Region(0, second_stage_offset)

\* Every commitment is created at most once and its cap is observed in the
\* round that produced it, before the next commitment is created; the slices
\* of the arena my_prove writes after the Z/partial-products commitment was
\* produced lie clear of the values of the wires commitment and of the leaves
\* of the Z/partial-products commitment; the caps of the Proof are the caps of
\* the commitments, which are the caps the transcript observed.
CapsObservedOnce ==
    /\ \A op \in {"commit_wires", "commit_zs_partial_products", "commit_quotient_polys",
                  "observe_wires_cap", "observe_zs_cap", "observe_quotient_cap"} :
          Count(op) <= 1
    /\ \A k \in 1 .. 3 :
          (RunCommitments[k] # NoCommitment) <=>
              Happened(<<"commit_wires", "commit_zs_partial_products",
                         "commit_quotient_polys">>[k])
    /\ Before("commit_wires", "observe_wires_cap")
    /\ Before("observe_wires_cap", "commit_zs_partial_products")
    /\ Before("commit_zs_partial_products", "observe_zs_cap")
    /\ Before("observe_zs_cap", "commit_quotient_polys")
    /\ Before("commit_quotient_polys", "observe_quotient_cap")
    /\ (path = "my_prove" /\ Happened("commit_zs_partial_products")) =>
          \A written \in {d_quotient_polys_region, d_outs_region, d_alphas_region,
                          d_betas_region, d_gammas_region} :
              /\ ~Overlap(written, wires_region)
              /\ ~Overlap(written, leaves_region)
    /\ result = "ok" =>
          /\ proof_caps(proof) =
                 <<wires_commitment.cap, partial_products_and_zs_commitment.cap,
                   quotient_polys_commitment.cap>>
          /\ proof_caps(proof) = observed_caps
          /\ challenger = transcript_of(proof_caps(proof))

\* C28: a commitment is never modified after it is produced.  Each of the
\* wires, Z/partial-products and quotient commitments is created once, every
\* later step leaves it as it is, and the cap placed in the Proof is the cap
\* the transcript observed in the round that produced the commitment.
C28_CommitmentsImmutable ==
    /\ [][CommitmentsKept]_vars
    /\ []CapsObservedOnce

C28_Witness ==
    /\ path = "my_prove"
    /\ result = "ok"
    /\ Cardinality({proof_caps(proof)[k] : k \in 1 .. 3}) = 3
    /\ num_challenges > 1

(***************************************************************************)
(* The end of a run.                                                       *)
(***************************************************************************)
\* The fatal errors of prove.
FatalErrors ==
    {"panic_routed_wires", "panic_inverse_of_zero", "panic_rate_bits",
     "panic_quotient_trim", "err_opening_point_in_subgroup"}

\* The steps of prove, in the order of the function body.
ProveSteps ==
    <<"generate_witness", "commit_wires", "new_challenger", "observe_circuit_digest",
      "observe_public_inputs_hash", "observe_wires_cap", "get_betas", "get_gammas",
      "assert_routed_wires", "compute_partial_products", "arrange_zs",
      "commit_zs_partial_products", "observe_zs_cap", "get_alphas",
      "compute_quotient_polys", "split_quotient_polys", "commit_quotient_polys",
      "observe_quotient_cap", "get_zeta", "check_zeta", "construct_openings",
      "observe_openings", "prove_openings", "assemble_proof">>

\* What has been executed is an initial part of the steps of prove, each once;
\* the run is in exactly one of three conditions: running, ended with a
\* complete Proof after the last step, or ended with a fatal error and no
\* Proof at the step that raised it.
OneTerminalState ==
    /\ IsPrefix(log, ProveSteps)
    /\ \/ /\ pc \notin {"done", "aborted"}
          /\ result = "running"
          /\ proof = NoProof
       \/ /\ pc = "done"
          /\ result = "ok"
          /\ log = ProveSteps
          /\ proof = make_proof(wires_commitment, partial_products_and_zs_commitment,
                                quotient_polys_commitment, openings, opening_proof,
                                public_inputs)
          /\ openings.built
          /\ opening_proof # NoOpeningProof
          /\ \A k \in 1 .. 3 : proof_caps(proof)[k] \in F
       \/ /\ pc = "aborted"
          /\ result \in FatalErrors
          /\ Len(log) < Len(ProveSteps)
          /\ proof = NoProof

\* C29: every run of prove reaches a terminal state, success with a complete
\* Proof or a fatal error, and only one; no step is executed twice, and once
\* the run has ended, with a fatal error or with a Proof, no step is executed.
C29_ProveTerminates ==
    /\ (path = "prove") ~> (path = "prove" /\ Ended)
    /\ [](path = "prove" => OneTerminalState)
    /\ [][path = "prove" => ~Ended]_vars

C29_Witness ==
    /\ path = "prove"
    /\ pc = "aborted"
    /\ result = "panic_quotient_trim"
    /\ Happened("get_alphas")

====
